---- MODULE Spec2Model ----
(***************************************************************************)
(* Binary artifact recovery engine of the digital-detective-suite:         *)
(*   - the file carver      (src/components/tools/FileCarver.tsx)          *)
(*   - the signature detector (src/components/tools/HashAnalyzer.tsx)      *)
(*   - the EXIF/GPS extractor (src/components/tools/GPSExtractor.tsx)      *)
(*   - the file system probe  (src/components/tools/HexViewer.tsx)         *)
(* Offsets are 0-based as in the source; a buffer is a sequence of bytes   *)
(* and data[k] of the source is At(data, k).                               *)
(***************************************************************************)
EXTENDS Integers, Sequences, FiniteSets, TLC

VARIABLES
    data,                \* FileCarver: the Uint8Array handed to carveFiles
    selectedCategories,  \* FileCarver: the enabled categories (React state)
    pc,                  \* carveFiles: "idle" | "yield" (at the await) | "done"
    i,                   \* carveFiles: the scan cursor
    carved,              \* carveFiles: the result list
    cands,               \* every candidate the scan evaluated (endOffset, confidence, kept)
    progress,            \* FileCarver: setProgress value
    examined,            \* carveFiles: scan offsets examined since the last await
    buffer,              \* FileSignatureDetector: the bytes handed to detectSignature
    extension,           \* FileSignatureDetector: the declared extension, a string
    result,              \* FileSignatureDetector: the DetectionResult, NoResult before
    arrayBuffer,         \* GPSExtractor: the bytes handed to parseExifGPS
    exifSource,          \* GPSExtractor: what the uploaded picture was written from
    exifResult,          \* GPSExtractor: the outcome of parseExifGPS, NotParsed before
    fsData,              \* HexViewer: the bytes handed to detectFileSystem
    fileSystem,          \* HexViewer: the detected file system, NotDetected before
    analysisResult,      \* HexViewer: the outcome of analyzeImage, NotParsed before
    previousResult,      \* HexViewer: the outcome of the run before on the same bytes
    scans,               \* FileCarver: one record per call of handleFileUpload
    timers,              \* FileCarver: the scans waiting at setTimeout(r, 0), in order
    carvedFiles,         \* FileCarver: the displayed list (React state)
    isCarving,           \* FileCarver: the busy flag (React state)
    diskImageName        \* FileCarver: the upload whose name and size are displayed

carveVars == <<data, selectedCategories, pc, i, carved, cands, progress, examined>>
detectVars == <<buffer, extension, result>>
exifVars == <<arrayBuffer, exifSource, exifResult>>
fsVars == <<fsData, fileSystem, analysisResult, previousResult>>
uploadVars == <<scans, timers, carvedFiles, isCarving, diskImageName>>
vars == <<carveVars, detectVars, exifVars, fsVars, uploadVars>>

NotParsed == [exit |-> "none"]

NotDetected == ""

\* the GPS extractor before any upload
ExifIdle == arrayBuffer = << >> /\ exifSource = << >> /\ exifResult = NotParsed

\* the hex viewer before any upload
FsIdle ==
    /\ fsData = << >> /\ fileSystem = NotDetected
    /\ analysisResult = NotParsed /\ previousResult = NotParsed

\* the carver widget before any upload, lines 67-74
UploadIdle ==
    /\ scans = << >> /\ timers = << >> /\ carvedFiles = << >>
    /\ isCarving = FALSE /\ diskImageName = 0

Min(a, b) == IF a < b THEN a ELSE b

At(d, k) == d[k + 1]

(***************************************************************************)
(* The model measures every maxSize of the catalog in units of             *)
(* MaxSizeScale bytes, so that buffers of a few hundred bytes reach the    *)
(* maxSize cap; the literals are the source's.                             *)
(***************************************************************************)
MaxSizeScale == 100000

NoFooter == << >>

fileSignatures == <<
  [name |-> "JPEG", extension |-> "jpg", header |-> <<255, 216, 255>>,
   footer |-> <<255, 217>>, maxSize |-> 50000000 \div MaxSizeScale, category |-> "image"],
  [name |-> "PNG", extension |-> "png", header |-> <<137, 80, 78, 71, 13, 10, 26, 10>>,
   footer |-> <<73, 69, 78, 68, 174, 66, 96, 130>>, maxSize |-> 50000000 \div MaxSizeScale, category |-> "image"],
  [name |-> "GIF", extension |-> "gif", header |-> <<71, 73, 70, 56>>,
   footer |-> <<0, 59>>, maxSize |-> 20000000 \div MaxSizeScale, category |-> "image"],
  [name |-> "BMP", extension |-> "bmp", header |-> <<66, 77>>,
   footer |-> NoFooter, maxSize |-> 50000000 \div MaxSizeScale, category |-> "image"],
  [name |-> "WebP", extension |-> "webp", header |-> <<82, 73, 70, 70>>,
   footer |-> NoFooter, maxSize |-> 50000000 \div MaxSizeScale, category |-> "image"],
  [name |-> "MP4", extension |-> "mp4", header |-> <<0, 0, 0>>,
   footer |-> NoFooter, maxSize |-> 500000000 \div MaxSizeScale, category |-> "video"],
  [name |-> "AVI", extension |-> "avi", header |-> <<82, 73, 70, 70>>,
   footer |-> NoFooter, maxSize |-> 500000000 \div MaxSizeScale, category |-> "video"],
  [name |-> "MKV", extension |-> "mkv", header |-> <<26, 69, 223, 163>>,
   footer |-> NoFooter, maxSize |-> 500000000 \div MaxSizeScale, category |-> "video"],
  [name |-> "MP3", extension |-> "mp3", header |-> <<73, 68, 51>>,
   footer |-> NoFooter, maxSize |-> 50000000 \div MaxSizeScale, category |-> "audio"],
  [name |-> "WAV", extension |-> "wav", header |-> <<82, 73, 70, 70>>,
   footer |-> NoFooter, maxSize |-> 100000000 \div MaxSizeScale, category |-> "audio"],
  [name |-> "OGG", extension |-> "ogg", header |-> <<79, 103, 103, 83>>,
   footer |-> NoFooter, maxSize |-> 50000000 \div MaxSizeScale, category |-> "audio"],
  [name |-> "PDF", extension |-> "pdf", header |-> <<37, 80, 68, 70>>,
   footer |-> <<37, 37, 69, 79, 70>>, maxSize |-> 100000000 \div MaxSizeScale, category |-> "document"],
  [name |-> "DOCX/ZIP", extension |-> "zip", header |-> <<80, 75, 3, 4>>,
   footer |-> NoFooter, maxSize |-> 100000000 \div MaxSizeScale, category |-> "document"],
  [name |-> "RTF", extension |-> "rtf", header |-> <<123, 92, 114, 116, 102>>,
   footer |-> NoFooter, maxSize |-> 50000000 \div MaxSizeScale, category |-> "document"],
  [name |-> "RAR", extension |-> "rar", header |-> <<82, 97, 114, 33>>,
   footer |-> NoFooter, maxSize |-> 500000000 \div MaxSizeScale, category |-> "archive"],
  [name |-> "7Z", extension |-> "7z", header |-> <<55, 122, 188, 175, 39, 28>>,
   footer |-> NoFooter, maxSize |-> 500000000 \div MaxSizeScale, category |-> "archive"],
  [name |-> "GZIP", extension |-> "gz", header |-> <<31, 139>>,
   footer |-> NoFooter, maxSize |-> 500000000 \div MaxSizeScale, category |-> "archive"],
  [name |-> "EXE", extension |-> "exe", header |-> <<77, 90>>,
   footer |-> NoFooter, maxSize |-> 100000000 \div MaxSizeScale, category |-> "other"],
  [name |-> "ELF", extension |-> "elf", header |-> <<127, 69, 76, 70>>,
   footer |-> NoFooter, maxSize |-> 100000000 \div MaxSizeScale, category |-> "other"]
>>

AllCategories == {"image", "video", "audio", "document", "archive", "other"}

\* fileSignatures.filter(sig => selectedCategories.has(sig.category)), as catalog indices
RECURSIVE FilterFrom(_, _)
FilterFrom(k, cats) ==
    IF k > Len(fileSignatures) THEN << >>
    ELSE IF fileSignatures[k].category \in cats
         THEN <<k>> \o FilterFrom(k + 1, cats)
         ELSE FilterFrom(k + 1, cats)

\* the mutant that scans with the whole catalog
activeSignaturesUnfiltered(cats) == FilterFrom(1, AllCategories)

activeSignatures(cats) == FilterFrom(1, cats)

matchHeader(d, offset, header) ==
    IF offset + Len(header) > Len(d) THEN FALSE
    ELSE \A j \in 0 .. Len(header) - 1 : At(d, offset + j) = header[j + 1]

\* the inner loop of findFooter: footer matches at position p
FooterAt(d, p, footer) ==
    \A j \in 0 .. Len(footer) - 1 : At(d, p + j) = footer[j + 1]

SetMin(S) == CHOOSE x \in S : \A y \in S : x <= y

\* the mutant of the for loop that returns the footer's start, not its end
FooterLoopStart(d, from, searchEnd, footer) ==
    LET hits == { p \in from .. searchEnd - 1 : FooterAt(d, p, footer) }
    IN  IF hits = {} THEN -1 ELSE SetMin(hits)

\* the for loop of findFooter returns at the least p in [from, searchEnd) at
\* which the footer matches, and -1 when there is none
FooterLoop(d, from, searchEnd, footer) ==
    LET hits == { p \in from .. searchEnd - 1 : FooterAt(d, p, footer) }
    IN  IF hits = {} THEN -1 ELSE SetMin(hits) + Len(footer)

findFooter(d, startOffset, footer, maxSize) ==
    LET searchEnd == Min(startOffset + maxSize, Len(d) - Len(footer))
    IN  FooterLoop(d, startOffset + 10, searchEnd, footer)

\* the mutant that leaves confidence at its initial 80 when there is no footer
CandidateInitialConfidence(d, o, sig) ==
    IF sig.footer # NoFooter
    THEN LET e == findFooter(d, o, sig.footer, sig.maxSize)
         IN  IF e = -1
             THEN [endOffset |-> Min(o + sig.maxSize, Len(d)), confidence |-> 50]
             ELSE [endOffset |-> e, confidence |-> 95]
    ELSE [endOffset |-> Min(o + sig.maxSize, Len(d)), confidence |-> 80]

\* lines 112-128 of carveFiles: the end offset and confidence of a header match.
\* Every catalog entry defines maxSize, so the defaults of "sig.maxSize || ..."
\* are never taken.
Candidate(d, o, sig) ==
    IF sig.footer # NoFooter
    THEN LET e == findFooter(d, o, sig.footer, sig.maxSize)
         IN  IF e = -1
             THEN [endOffset |-> Min(o + sig.maxSize, Len(d)), confidence |-> 50]
             ELSE [endOffset |-> e, confidence |-> 95]
    ELSE [endOffset |-> Min(o + sig.maxSize, Len(d)), confidence |-> 60]

\* the mutant of the size filter that keeps a file of exactly maxSize
SizeAcceptedInclusive(fileSize, sig) == fileSize > 100 /\ fileSize <= sig.maxSize

\* line 131: the size filter
SizeAccepted(fileSize, sig) == fileSize > 100 /\ fileSize < sig.maxSize

\* line 130, with the mutant that forgets the base offset
FileSizeFromZero(endOffset, o) == endOffset

FileSize(endOffset, o) == endOffset - o

\* line 145 and the i++ of the loop, with the mutant that does not skip the file
SkipPastNoJump(o, endOffset) == o + 1

SkipPast(o, endOffset) == (endOffset - 1) + 1

\* a CarvedFile without its data field, which is data.slice(offset, offset + size)
NoFile == [type |-> "", extension |-> "", offset |-> -1, size |-> 0,
           category |-> "", confidence |-> 0]

\* lines 110-149: the loop over activeSignatures at cursor o, from position k
\* of the active list; cs collects the candidates evaluated on the way
RECURSIVE SigLoop(_, _, _, _, _)
SigLoop(d, o, active, k, cs) ==
    IF k > Len(active) THEN [hit |-> FALSE, file |-> NoFile, endOffset |-> -1, cands |-> cs]
    ELSE LET sig == fileSignatures[active[k]]
         IN  IF matchHeader(d, o, sig.header)
             THEN LET c == Candidate(d, o, sig)
                      fileSize == FileSize(c.endOffset, o)
                      kept == SizeAccepted(fileSize, sig)
                      rec == [sig |-> active[k], offset |-> o, endOffset |-> c.endOffset,
                              confidence |-> c.confidence, kept |-> kept]
                  IN  IF kept
                      THEN [hit |-> TRUE,
                            file |-> [type |-> sig.name, extension |-> sig.extension,
                                      offset |-> o, size |-> fileSize,
                                      category |-> sig.category,
                                      confidence |-> c.confidence],
                            endOffset |-> c.endOffset,
                            cands |-> Append(cs, rec)]
                      ELSE SigLoop(d, o, active, k + 1, Append(cs, rec))
             ELSE SigLoop(d, o, active, k + 1, cs)

\* The model measures the yield interval of line 105 in units of YieldScale
\* offsets, so that images of a few hundred bytes are scanned in several
\* chunks; the literal is the source's.
YieldScale == 1000

YieldEvery == 100000 \div YieldScale

\* some active signature's header matches at cursor o (line 111)
HeaderHit(d, active, o) ==
    \E k \in 1 .. Len(active) : matchHeader(d, o, fileSignatures[active[k]].header)

\* An iteration of the outer loop that is not at an await and in which no
\* header matches only does i++: SkipIdle is the cursor after the run of such
\* iterations that starts at o.
SkipIdle(d, active, o) ==
    LET stops == { q \in o .. Len(d) - 1 :
                     q % YieldEvery = 0 \/ HeaderHit(d, active, q) }
    IN  IF stops = {} THEN IF o < Len(d) THEN Len(d) ELSE o ELSE SetMin(stops)

\* lines 103-150: the outer loop. ScanHead is the loop head (i < data.length,
\* then the progress check that awaits); ScanBody runs the signature loop at
\* cursor o and goes round. The result is the state at the next await or at
\* the return; n counts the offsets whose signature loop ran since the last
\* await.
RECURSIVE ScanHead(_, _, _, _, _, _)
RECURSIVE ScanBody(_, _, _, _, _, _)
ScanHead(d, active, o, cv, cs, n) ==
    LET q == SkipIdle(d, active, o)
        m == n + (q - o)
    IN  IF ~(q < Len(d))
        THEN [pc |-> "done", i |-> q, carved |-> cv, cands |-> cs, examined |-> m]
        ELSE IF q % YieldEvery = 0
             THEN [pc |-> "yield", i |-> q, carved |-> cv, cands |-> cs, examined |-> m]
             ELSE ScanBody(d, active, q, cv, cs, m)

ScanBody(d, active, o, cv, cs, n) ==
    LET r == SigLoop(d, o, active, 1, cs)
    IN  IF r.hit
        THEN ScanHead(d, active, SkipPast(o, r.endOffset),
                      Append(cv, r.file), r.cands, n + 1)
        ELSE ScanHead(d, active, o + 1, cv, r.cands, n + 1)

(***************************************************************************)
(* The disk images the scan is run on: up to two records, each a catalog   *)
(* header, a body of filler bytes, optionally the footer of the same       *)
(* signature, and a tail of filler bytes. The body lengths sit on both     *)
(* sides of every threshold of the code: the 10-byte footer skip, the      *)
(* 100-byte minimum size and the signature's maxSize.                      *)
(***************************************************************************)
Filler == 65

PrePad == 3
LongTail == 110
SecondBody == 120
MaxBody == 250

Pad(n) == [k \in 1 .. n |-> Filler]

Rec(s, body, withFooter, tail) ==
    fileSignatures[s].header \o Pad(body)
        \o (IF withFooter THEN fileSignatures[s].footer ELSE << >>) \o Pad(tail)

FirstSigs == {1, 2, 3, 4, 5, 6, 12}

\* body lengths that put the record's size (header + body + footer) on both
\* sides of the thresholds
ThresholdLens(s) ==
    LET h == Len(fileSignatures[s].header)
        f == Len(fileSignatures[s].footer)
        m == fileSignatures[s].maxSize
    IN  { b \in {0, 9 - h, 10 - h, 100 - h - f, 101 - h - f,
                 m - 1 - h - f, m - h - f, m + 1 - h - f, m + 2 - h - f} : b >= 0 }

BodyLens(s) == { b \in ThresholdLens(s) : b <= MaxBody }

TailLens == {0, 1, LongTail}

SecondRecs == { << >>, Rec(1, SecondBody, TRUE, 1), Rec(5, SecondBody, FALSE, 0) }

FirstRecs ==
    UNION { { Rec(s, b, wf, t) : b \in BodyLens(s), wf \in BOOLEAN, t \in TailLens } :
            s \in FirstSigs }

Images ==
    { Pad(pre) \o r1 \o r2 : pre \in {0, PrePad}, r1 \in FirstRecs, r2 \in SecondRecs }
    \cup { << >> }

\* the images on which the category selection is varied: a RIFF header
\* (WebP, AVI and WAV share it), alone or after a PNG
RiffImages ==
    { Rec(5, b, FALSE, 0) : b \in ThresholdLens(5) }
    \cup { Rec(2, b, TRUE, 1) \o Rec(5, SecondBody, FALSE, 0) : b \in BodyLens(2) }

CategorySets ==
    { AllCategories, {}, {"image"}, {"video", "audio"}, {"audio", "document"},
      {"document", "archive", "other"} }

Inputs == (Images \X {AllCategories}) \cup (RiffImages \X CategorySets)

NoResult == [detectedType |-> -1]

\* the detector before any upload
DetectIdle == buffer = << >> /\ extension = << >> /\ result = NoResult

Init ==
    /\ \E inp \in Inputs : data = inp[1] /\ selectedCategories = inp[2]
    /\ pc = "idle"
    /\ i = 0
    /\ carved = << >>
    /\ cands = << >>
    /\ progress = 0
    /\ examined = 0
    /\ DetectIdle
    /\ ExifIdle
    /\ FsIdle
    /\ UploadIdle

\* Math.floor((i / data.length) * 100), called only with data.length > 0
ProgressAt(o, d) == (o * 100) \div Len(d)

\* carveFiles up to its first await (line 107) or, on an empty buffer, its return
CarveBegin ==
    /\ pc = "idle"
    /\ LET r == ScanHead(data, activeSignatures(selectedCategories), 0, << >>, << >>, 0)
       IN  /\ pc' = r.pc
           /\ i' = r.i
           /\ carved' = r.carved
           /\ cands' = r.cands
           /\ examined' = r.examined
           /\ progress' = IF r.pc = "yield" THEN ProgressAt(r.i, data) ELSE progress
    /\ UNCHANGED <<data, selectedCategories>>
    /\ UNCHANGED <<detectVars, exifVars, fsVars, uploadVars>>

\* the continuation after the await: the signature loop at the cursor, then on
\* to the next await or to the return
CarveResume ==
    /\ pc = "yield"
    /\ LET r == ScanBody(data, activeSignatures(selectedCategories), i, carved, cands, 0)
       IN  /\ pc' = r.pc
           /\ i' = r.i
           /\ carved' = r.carved
           /\ cands' = r.cands
           /\ examined' = r.examined
           /\ progress' = IF r.pc = "yield" THEN ProgressAt(r.i, data) ELSE progress
    /\ UNCHANGED <<data, selectedCategories>>
    /\ UNCHANGED <<detectVars, exifVars, fsVars, uploadVars>>

Next == CarveBegin \/ CarveResume

Spec == Init /\ [][Next]_vars

(***************************************************************************)
(* The signature detector (HashAnalyzer.tsx, FileSignatureDetector).       *)
(* A string is a sequence of one-character strings.                        *)
(***************************************************************************)
detectSignatures == <<
  [hex |-> <<"8","9","5","0","4","E","4","7">>, extension |-> <<"P","N","G">>],
  [hex |-> <<"F","F","D","8","F","F","E","0">>, extension |-> <<"J","P","G">>],
  [hex |-> <<"F","F","D","8","F","F","E","1">>, extension |-> <<"J","P","G">>],
  [hex |-> <<"F","F","D","8","F","F","D","B">>, extension |-> <<"J","P","G">>],
  [hex |-> <<"4","7","4","9","4","6","3","8">>, extension |-> <<"G","I","F">>],
  [hex |-> <<"5","2","4","9","4","6","4","6">>, extension |-> <<"W","E","B","P">>],
  [hex |-> <<"2","5","5","0","4","4","4","6">>, extension |-> <<"P","D","F">>],
  [hex |-> <<"5","0","4","B","0","3","0","4">>,
   extension |-> <<"Z","I","P","/","D","O","C","X","/","X","L","S","X">>],
  [hex |-> <<"5","0","4","B","0","5","0","6">>, extension |-> <<"Z","I","P">>],
  [hex |-> <<"5","2","6","1","7","2","2","1">>, extension |-> <<"R","A","R">>],
  [hex |-> <<"1","F","8","B","0","8","0","0">>, extension |-> <<"G","Z">>],
  [hex |-> <<"3","7","7","A","B","C","A","F">>, extension |-> <<"7","Z">>],
  [hex |-> <<"4","D","5","A","9","0","0","0">>, extension |-> <<"E","X","E">>],
  [hex |-> <<"7","F","4","5","4","C","4","6">>, extension |-> <<"E","L","F">>],
  [hex |-> <<"4","9","4","4","3","3","0","3">>, extension |-> <<"M","P","3">>],
  [hex |-> <<"F","F","F","B","9","0","0","0">>, extension |-> <<"M","P","3">>],
  [hex |-> <<"0","0","0","0","0","0","2","0">>, extension |-> <<"M","P","4">>],
  [hex |-> <<"0","0","0","0","0","0","1","8">>, extension |-> <<"M","P","4">>],
  [hex |-> <<"1","A","4","5","D","F","A","3">>,
   extension |-> <<"M","K","V","/","W","E","B","M">>],
  [hex |-> <<"D","0","C","F","1","1","E","0">>,
   extension |-> <<"D","O","C","/","X","L","S","/","P","P","T">>]
>>

ZipOfficeExtension == <<"Z","I","P","/","D","O","C","X","/","X","L","S","X">>
ZipOfficeAccepted ==
    { <<"D","O","C","X">>, <<"X","L","S","X">>, <<"P","P","T","X">>, <<"Z","I","P">> }

LowerDigits == <<"0","1","2","3","4","5","6","7","8","9","a","b","c","d","e","f">>
LowerLetters == <<"a","b","c","d","e","f","g","h","i","j","k","l","m",
                  "n","o","p","q","r","s","t","u","v","w","x","y","z">>
UpperLetters == <<"A","B","C","D","E","F","G","H","I","J","K","L","M",
                  "N","O","P","Q","R","S","T","U","V","W","X","Y","Z">>

\* Number.prototype.toString(16) of a byte
toString16(b) ==
    IF b < 16 THEN <<LowerDigits[b + 1]>>
    ELSE <<LowerDigits[(b \div 16) + 1], LowerDigits[(b % 16) + 1]>>

\* String.prototype.padStart(2, '0')
padStart2(str) == IF Len(str) < 2 THEN <<"0">> \o str ELSE str

UpperChar(c) ==
    IF \E k \in 1 .. Len(LowerLetters) : LowerLetters[k] = c
    THEN UpperLetters[CHOOSE k \in 1 .. Len(LowerLetters) : LowerLetters[k] = c]
    ELSE c

\* the mutant that compares the declared extension as typed
toUpperCaseAsTyped(str) == str

\* String.prototype.toUpperCase
toUpperCase(str) == [k \in 1 .. Len(str) |-> UpperChar(str[k])]

\* the mutant that compares only the characters both strings have
startsWithOverlap(str, prefix) ==
    \A k \in 1 .. Min(Len(str), Len(prefix)) : str[k] = prefix[k]

\* String.prototype.startsWith
startsWith(str, prefix) ==
    Len(prefix) <= Len(str) /\ SubSeq(str, 1, Len(prefix)) = prefix

\* String.prototype.includes: sub occurs somewhere in str
includes(str, sub) ==
    \E k \in 0 .. Len(str) - Len(sub) : SubSeq(str, k + 1, k + Len(sub)) = sub

\* the mutant that formats the whole buffer
slice8Whole(b) == b

\* buffer.slice(0, 8)
slice8(b) == SubSeq(b, 1, Min(8, Len(b)))

RECURSIVE joinHex(_)
joinHex(bytes) ==
    IF bytes = << >> THEN << >>
    ELSE toUpperCase(padStart2(toString16(Head(bytes)))) \o joinHex(Tail(bytes))

\* lines 247-252: the first catalog position whose hex the header starts with, 0 for null
detectedTypeOf(headerHex) ==
    LET hits == { k \in 1 .. Len(detectSignatures) :
                    startsWith(headerHex, detectSignatures[k].hex) }
    IN  IF hits = {} THEN 0 ELSE SetMin(hits)

\* lines 239-266
detectSignature(buf, ext) ==
    LET headerHex == joinHex(slice8(buf))
        detectedType == detectedTypeOf(headerHex)
        actualExt == toUpperCase(ext)
        isMatch ==
            IF detectedType = 0 THEN FALSE
            ELSE \/ includes(detectSignatures[detectedType].extension, actualExt)
                 \/ /\ detectSignatures[detectedType].extension = ZipOfficeExtension
                    /\ actualExt \in ZipOfficeAccepted
    IN  [detectedType |-> detectedType,
         actualExtension |-> actualExt,
         headerHex |-> headerHex,
         isMatch |-> isMatch,
         isSuspicious |-> detectedType # 0 /\ ~isMatch]

(***************************************************************************)
(* The inputs of the detector: every catalog header, whole (with padding   *)
(* that takes the buffer past 8 bytes), truncated, and with its last byte  *)
(* changed; every accepted extension in three letter cases, and strings    *)
(* that are no accepted extension.                                         *)
(***************************************************************************)
UpperDigits == <<"0","1","2","3","4","5","6","7","8","9","A","B","C","D","E","F">>

HexValue(c) == (CHOOSE k \in 1 .. 16 : UpperDigits[k] = c) - 1

\* the bytes a catalog entry's hex string denotes
HeaderBytes(k) ==
    LET h == detectSignatures[k].hex
    IN  [j \in 1 .. Len(h) \div 2 |-> 16 * HexValue(h[2 * j - 1]) + HexValue(h[2 * j])]

RECURSIVE SplitAt(_, _, _)
SplitAt(str, sep, acc) ==
    IF str = << >> THEN {acc}
    ELSE IF Head(str) = sep THEN {acc} \cup SplitAt(Tail(str), sep, << >>)
    ELSE SplitAt(Tail(str), sep, Append(acc, Head(str)))

\* the accepted extensions of catalog entry k: the slash-separated names of
\* its extension, plus DOCX, XLSX, PPTX and ZIP for the ZIP/DOCX/XLSX entry
Aliases(k) ==
    SplitAt(detectSignatures[k].extension, "/", << >>)
        \cup (IF detectSignatures[k].extension = ZipOfficeExtension
              THEN ZipOfficeAccepted ELSE {})

LowerChar(c) ==
    IF \E k \in 1 .. Len(UpperLetters) : UpperLetters[k] = c
    THEN LowerLetters[CHOOSE k \in 1 .. Len(UpperLetters) : UpperLetters[k] = c]
    ELSE c

lowerCase(str) == [k \in 1 .. Len(str) |-> LowerChar(str[k])]

mixedCase(str) == [k \in 1 .. Len(str) |-> IF k % 2 = 1 THEN str[k] ELSE LowerChar(str[k])]

SameIgnoringCase(a, b) == lowerCase(a) = lowerCase(b)

MaxPadding == 5
PadBytes == {0, 10, 255}

Paddings == { [k \in 1 .. n |-> b] : n \in {0, 1, MaxPadding}, b \in PadBytes }

CatalogIdx == 1 .. Len(detectSignatures)

DetectBuffers ==
    { HeaderBytes(k) \o pad : k \in CatalogIdx, pad \in Paddings }
    \cup { SubSeq(HeaderBytes(k), 1, n) : k \in CatalogIdx, n \in 0 .. 3 }
    \cup { [HeaderBytes(k) EXCEPT ![4] = (@ + 1) % 256] : k \in CatalogIdx }

AllAliases == UNION { Aliases(k) : k \in CatalogIdx }

Extensions ==
    AllAliases \cup { lowerCase(a) : a \in AllAliases } \cup { mixedCase(a) : a \in AllAliases }
    \cup { <<"x","y","z">>, << >>, <<"P">>, <<"j","p">>, <<"/">>, <<"i","p","/","d">>,
           lowerCase(ZipOfficeExtension), <<"t","x","t">> }

\* the carver before any upload
CarveIdle ==
    /\ data = << >> /\ selectedCategories = AllCategories /\ pc = "idle" /\ i = 0
    /\ carved = << >> /\ cands = << >> /\ progress = 0 /\ examined = 0

InitDetect ==
    /\ buffer \in DetectBuffers
    /\ extension \in Extensions
    /\ result = NoResult
    /\ CarveIdle
    /\ ExifIdle
    /\ FsIdle
    /\ UploadIdle

\* reader.onload, lines 278-281: setResult(detectSignature(buffer, extension))
Detect ==
    /\ result = NoResult
    /\ result' = detectSignature(buffer, extension)
    /\ UNCHANGED <<buffer, extension>>
    /\ UNCHANGED <<carveVars, exifVars, fsVars, uploadVars>>

NextDetect == Detect

SpecDetect == InitDetect /\ [][NextDetect]_vars

(***************************************************************************)
(* Properties of the file carver.                                          *)
(***************************************************************************)
CarvedIdx == 1 .. Len(carved)
CandIdx == 1 .. Len(cands)

\* the byte sequence bs occurs in d at offset p
OccursAt(d, p, bs) == p >= 0 /\ p + Len(bs) <= Len(d) /\ SubSeq(d, p + 1, p + Len(bs)) = bs

SigOf(f) == CHOOSE k \in 1 .. Len(fileSignatures) : fileSignatures[k].name = f.type

\* C1: every carved file's byte range lies inside the source buffer:
\* 0 <= offset and offset + size <= bufferLength.
C1_RangeInBuffer ==
    \A k \in CarvedIdx : 0 <= carved[k].offset /\ carved[k].offset + carved[k].size <= Len(data)

\* a file carved at a non-zero offset whose end was clamped to the buffer end
C1_Witness ==
    /\ pc = "done"
    /\ \E k \in CarvedIdx : /\ carved[k].offset > 0
                            /\ carved[k].confidence < 95
                            /\ carved[k].offset + carved[k].size = Len(data)
    /\ \E k \in CarvedIdx : /\ carved[k].confidence = 95
                            /\ carved[k].offset + carved[k].size < Len(data)

\* C2: the result is in strictly ascending offset order and non-overlapping:
\* for consecutive results a then b, a.offset + a.size <= b.offset.
C2_AscendingDisjoint ==
    \A k \in CarvedIdx : k + 1 \in CarvedIdx =>
        /\ carved[k].offset < carved[k + 1].offset
        /\ carved[k].offset + carved[k].size <= carved[k + 1].offset

\* two files carved from one image, the second starting after the first ends
C2_Witness == pc = "done" /\ Len(carved) >= 2

PngSig == fileSignatures[2]

\* d is filler bytes around one PNG header at o and one IEND footer at p
PngImage(d, o, p) ==
    /\ OccursAt(d, o, PngSig.header)
    /\ OccursAt(d, p, PngSig.footer)
    /\ o + Len(PngSig.header) <= p
    /\ \A q \in 0 .. Len(d) - 1 :
          (q < o \/ (o + Len(PngSig.header) <= q /\ q < p) \/ p + Len(PngSig.footer) <= q)
              => At(d, q) = Filler

OneFile(o, size, confidence) ==
    /\ Len(carved) = 1
    /\ carved[1].type = "PNG"
    /\ carved[1].category = "image"
    /\ carved[1].offset = o
    /\ carved[1].size = size
    /\ carved[1].confidence = confidence

C4_FooterFoundUpToBufferEnd ==
    \A k \in CandIdx :
        LET c == cands[k]
            sig == fileSignatures[c.sig]
            last == Min(c.offset + sig.maxSize, Len(data)) - Len(sig.footer)
            hits == { p \in c.offset + 10 .. last : OccursAt(data, p, sig.footer) }
        IN  (sig.footer # NoFooter /\ hits # {})
                => (c.confidence = 95 /\ c.endOffset = SetMin(hits) + Len(sig.footer))

\* C5: a candidate is discarded exactly when its size is <= 100 or >= its
\* signature's maxSize; the files returned are the kept candidates, so each
\* has 100 < size < maxSize of the signature it is labelled with.
C5_SizeFilter ==
    /\ \A k \in CandIdx :
          LET size == cands[k].endOffset - cands[k].offset
          IN  (~cands[k].kept) <=> (size <= 100 \/ size >= fileSignatures[cands[k].sig].maxSize)
    /\ \A k \in CarvedIdx :
          /\ 100 < carved[k].size /\ carved[k].size < fileSignatures[SigOf(carved[k])].maxSize
          /\ \E c \in CandIdx : /\ cands[c].kept
                                /\ cands[c].offset = carved[k].offset
                                /\ cands[c].endOffset - cands[c].offset = carved[k].size
                                /\ fileSignatures[cands[c].sig].name = carved[k].type
    /\ Cardinality({ c \in CandIdx : cands[c].kept }) = Len(carved)

\* one scan that discarded a candidate of at most 100 bytes elsewhere, one of
\* exactly maxSize bytes, and kept another
C5_Witness ==
    /\ pc = "done"
    /\ \E c \in CandIdx : ~cands[c].kept
            /\ cands[c].endOffset - cands[c].offset = fileSignatures[cands[c].sig].maxSize
    /\ \E c \in CandIdx : cands[c].kept

\* a scan that discarded a candidate of exactly 100 bytes
C5_WitnessSmall ==
    /\ pc = "done"
    /\ \E c \in CandIdx : ~cands[c].kept /\ cands[c].endOffset - cands[c].offset = 100

\* the positions of the code's footer search window at which sig's footer
\* occurs: from o + 10 up to, excluding, min(o + maxSize, bufferLength - footerLength)
FooterHits(d, o, sig) ==
    { p \in o + 10 .. Min(o + sig.maxSize, Len(d) - Len(sig.footer)) - 1 :
        OccursAt(d, p, sig.footer) }

C6_WitnessNotFound ==
    pc = "done" /\ \E k \in CarvedIdx : carved[k].confidence = 50 /\ carved[k].offset > 0

\* the catalog positions whose category is enabled, whose header occurs at o
\* and whose candidate there passes the size filter
Passing(d, cats, o) ==
    { k \in 1 .. Len(fileSignatures) :
        /\ fileSignatures[k].category \in cats
        /\ OccursAt(d, o, fileSignatures[k].header)
        /\ SizeAccepted(Candidate(d, o, fileSignatures[k]).endOffset - o, fileSignatures[k]) }

\* C7: at any offset at most one file is emitted, and it is for the first
\* signature in catalog order, among those whose category is enabled, whose
\* header matches there and whose candidate passes the size filter; no file
\* has a category outside the enabled ones, so an empty selection yields none.
C7_FirstPassingSignature ==
    /\ \A k \in CarvedIdx : \A l \in CarvedIdx : carved[k].offset = carved[l].offset => k = l
    /\ \A k \in CarvedIdx :
          LET ps == Passing(data, selectedCategories, carved[k].offset)
          IN  /\ ps # {}
              /\ SigOf(carved[k]) = SetMin(ps)
              /\ carved[k].category = fileSignatures[SigOf(carved[k])].category
              /\ carved[k].extension = fileSignatures[SigOf(carved[k])].extension
              /\ carved[k].category \in selectedCategories
    /\ selectedCategories = {} => carved = << >>

\* a file carved for a signature that an enabled, earlier catalog entry with
\* the same header precedes, that entry's candidate having failed the size filter
C7_Witness ==
    /\ pc = "done"
    /\ \E k \in CarvedIdx : \E e \in 1 .. Len(fileSignatures) :
          /\ e < SigOf(carved[k])
          /\ fileSignatures[e].category \in selectedCategories
          /\ OccursAt(data, carved[k].offset, fileSignatures[e].header)

\* an image holding a header, scanned with no category enabled
C7_WitnessEmpty ==
    /\ pc = "done" /\ selectedCategories = {} /\ Len(data) > 100
    /\ \E k \in 1 .. Len(fileSignatures) : OccursAt(data, 0, fileSignatures[k].header)

\* a header shared by several enabled signatures, carved for a later category
\* because the earlier one is disabled
C7_WitnessDisabled ==
    /\ pc = "done" /\ selectedCategories = {"audio", "document"}
    /\ \E k \in CarvedIdx : carved[k].type = "WAV"

(***************************************************************************)
(* Properties of the signature detector.                                   *)
(***************************************************************************)
Detected == result # NoResult

\* the bytes of catalog entry k are a prefix of b
HeaderPrefix(k, b) ==
    Len(HeaderBytes(k)) <= Len(b) /\ SubSeq(b, 1, Len(HeaderBytes(k))) = HeaderBytes(k)

\* C8: for every catalog signature s and any padding, detect(header(s) ++
\* padding, e) returns s; the mismatch flag is false when e is an accepted
\* extension of s in any letter case, and true when e is "xyz".
C8_CatalogHeaderDetected ==
    Detected =>
        \A k \in CatalogIdx : HeaderPrefix(k, buffer) =>
            /\ result.detectedType = k
            /\ (\E a \in Aliases(k) : SameIgnoringCase(extension, a)) => ~result.isSuspicious
            /\ extension = <<"x","y","z">> => result.isSuspicious

\* the ZIP/DOCX/XLSX header with padding past 8 bytes, declared as "pptx"
C8_Witness ==
    /\ Detected /\ Len(buffer) > 8
    /\ HeaderPrefix(8, buffer)
    /\ extension = <<"p","p","t","x">>
    /\ result.detectedType = 8 /\ ~result.isSuspicious

\* the last catalog entry, declared as "xyz"
C8_WitnessXyz ==
    /\ Detected
    /\ HeaderPrefix(Len(detectSignatures), buffer)
    /\ extension = <<"x","y","z">>
    /\ result.isSuspicious

\* C9 as stated: the mismatch flag is true if and only if a signature matched
\* and the case-normalized declared extension is not one of the accepted
\* extensions of that signature.
C9_MismatchIffNotAccepted ==
    Detected =>
        (result.isSuspicious <=>
            /\ result.detectedType # 0
            /\ ~\E a \in Aliases(result.detectedType) : SameIgnoringCase(extension, a))

\* C10: when no catalog header is a prefix of the buffer (the empty buffer and
\* buffers shorter than a header included), detect returns no matched
\* signature and a false mismatch flag.
C10_NoMatch ==
    (Detected /\ \A k \in CatalogIdx : ~HeaderPrefix(k, buffer)) =>
        /\ result.detectedType = 0
        /\ ~result.isSuspicious
        /\ ~result.isMatch

\* a buffer of the first three bytes of a catalog header
C10_Witness ==
    /\ Detected
    /\ \E k \in CatalogIdx : buffer = SubSeq(HeaderBytes(k), 1, 3)
    /\ result.detectedType = 0

\* the empty buffer
C10_WitnessEmpty == Detected /\ buffer = << >> /\ result.detectedType = 0

\* the first n bytes of b, all of b when it is shorter
FirstBytes(b, n) == IF Len(b) <= n THEN b ELSE SubSeq(b, 1, n)

\* C11: detect reads no byte at an index above 7: any buffer that agrees with
\* the analysed one on bytes 0..7 (equal to it when it is shorter than 8 bytes)
\* yields the identical DetectionResult for the same declared extension.
C11_OnlyFirstEightBytes ==
    Detected =>
        \A t \in Paddings :
            LET other == IF Len(buffer) < 8 THEN buffer ELSE FirstBytes(buffer, 8) \o t
            IN  detectSignature(other, extension) = result

\* a detected buffer of more than 8 bytes
C11_Witness == Detected /\ Len(buffer) > 8 /\ result.detectedType # 0

(***************************************************************************)
(* The file system probe (HexViewer.tsx, detectFileSystem).  A string made *)
(* by String.fromCharCode is the sequence of its character codes.          *)
(***************************************************************************)
\* the white space and line terminators among the character codes below 256
Whitespace == {9, 10, 11, 12, 13, 32, 160}

\* String.prototype.trim
trim(str) ==
    LET keep == { k \in 1 .. Len(str) : str[k] \notin Whitespace }
    IN  IF keep = {} THEN << >>
        ELSE SubSeq(str, SetMin(keep), CHOOSE k \in keep : \A j \in keep : j <= k)

\* Uint8Array.prototype.slice(from, to) with 0 <= from <= to: both ends are
\* clamped to the length
jsSlice(d, from, to) ==
    IF from >= Min(to, Len(d)) THEN << >> ELSE SubSeq(d, from + 1, Min(to, Len(d)))

FAT32 == <<70, 65, 84, 51, 50>>
FAT16 == <<70, 65, 84, 49, 54>>
FAT12 == <<70, 65, 84, 49, 50>>
NTFS == <<78, 84, 70, 83>>

\* data[k] of a typed array: undefined (here -1) outside the array
Elem(d, k) == IF k >= 0 /\ k < Len(d) THEN At(d, k) ELSE -1

\* the mutant that tests the FAT16 field before the FAT32 field
detectFileSystemFat16First(d) ==
    LET fat16Sig == jsSlice(d, 54, 62)
        fat32Sig == jsSlice(d, 82, 90)
        ntfsSig == jsSlice(d, 3, 7)
    IN  IF includes(fat16Sig, FAT16) \/ includes(fat16Sig, FAT12) THEN "FAT16"
        ELSE IF includes(fat32Sig, FAT32) THEN "FAT32"
        ELSE IF ntfsSig = NTFS THEN "NTFS"
        ELSE IF Len(d) > 1080 /\ Elem(d, 1080) = 83 /\ Elem(d, 1081) = 239 THEN "EXT4"
        ELSE "Unknown"

detectFileSystem(d) ==
    LET fat16Sig == jsSlice(d, 54, 62)
        fat32Sig == jsSlice(d, 82, 90)
        ntfsSig == jsSlice(d, 3, 7)
    IN  IF includes(fat32Sig, FAT32) THEN "FAT32"
        ELSE IF includes(fat16Sig, FAT16) \/ includes(fat16Sig, FAT12) THEN "FAT16"
        ELSE IF ntfsSig = NTFS THEN "NTFS"
        ELSE IF Len(d) > 1080 /\ Elem(d, 1080) = 83 /\ Elem(d, 1081) = 239 THEN "EXT4"
        ELSE "Unknown"

(***************************************************************************)
(* The FAT reader (HexViewer.tsx, parseFAT).  In a bitwise expression an   *)
(* element outside the array, undefined, counts as 0, and the result is a  *)
(* signed 32-bit integer.                                                  *)
(***************************************************************************)
\* data[k] as an operand of | and <<
Bits(d, k) == IF k >= 0 /\ k < Len(d) THEN At(d, k) ELSE 0

\* data[k] | (data[k + 1] << 8)
Word(d, k) == Bits(d, k) + 256 * Bits(d, k + 1)

\* data[k] | (data[k + 1] << 8) | (data[k + 2] << 16) | (data[k + 3] << 24):
\* bit 7 of the last byte is the sign
DWord(d, k) ==
    Bits(d, k) + 256 * Bits(d, k + 1) + 65536 * Bits(d, k + 2)
        + 16777216 * (IF Bits(d, k + 3) >= 128 THEN Bits(d, k + 3) - 256 ELSE Bits(d, k + 3))

\* (x & mask) !== 0 for a mask of one bit
BitSet(x, mask) == (x \div mask) % 2 = 1

\* lines 293-298
attributesOf(attr) ==
    (IF BitSet(attr, 1) THEN <<"Read-Only">> ELSE << >>)
    \o (IF BitSet(attr, 2) THEN <<"Hidden">> ELSE << >>)
    \o (IF BitSet(attr, 4) THEN <<"System">> ELSE << >>)
    \o (IF BitSet(attr, 16) THEN <<"Directory">> ELSE << >>)
    \o (IF BitSet(attr, 32) THEN <<"Archive">> ELSE << >>)

\* a FileEntry; slot is the directory slot (MFT record) it was decoded from
FileEntry(name, size, isDirectory, isDeleted, cluster, attributes, recoverable, fragmentStatus, slot) ==
    [name |-> name, path |-> <<47>> \o name, size |-> size, isDirectory |-> isDirectory,
     isDeleted |-> isDeleted, cluster |-> cluster, attributes |-> attributes,
     recoverable |-> recoverable, fragmentStatus |-> fragmentStatus, slot |-> slot]

\* lines 264-284: the entry of a slot that starts with 0xE5, << >> when its
\* name is empty
deletedEntry(d, entryOffset, slot) ==
    LET name == trim(jsSlice(d, entryOffset + 1, entryOffset + 8))
        ext == trim(jsSlice(d, entryOffset + 8, entryOffset + 11))
        size == DWord(d, entryOffset + 28)
        cluster == Word(d, entryOffset + 26)
    IN  IF name # << >>
        THEN << FileEntry(<<95>> \o name \o (IF ext # << >> THEN <<46>> \o ext ELSE << >>),
                          size, FALSE, TRUE, cluster, << >>,
                          cluster > 0 /\ size > 0, "partial", slot) >>
        ELSE << >>

\* lines 285-314: the entry of any other slot, << >> when its name is empty
activeEntry(d, entryOffset, slot) ==
    LET name == trim(jsSlice(d, entryOffset, entryOffset + 8))
        ext == trim(jsSlice(d, entryOffset + 8, entryOffset + 11))
        attr == Bits(d, entryOffset + 11)
        size == DWord(d, entryOffset + 28)
        isDirectory == BitSet(attr, 16)
    IN  IF name # << >>
        THEN << FileEntry(name \o (IF ext # << >> /\ ~isDirectory THEN <<46>> \o ext ELSE << >>),
                          size, isDirectory, FALSE, Word(d, entryOffset + 26),
                          attributesOf(attr), TRUE, "complete", slot) >>
        ELSE << >>

\* the mutant that walks on past a slot starting with 0x00
RECURSIVE fatLoopPastEnd(_, _, _, _, _, _)
fatLoopPastEnd(d, rootDirStart, rootEntryCount, k, files, deletedFiles) ==
    LET entryOffset == rootDirStart + k * 32
        firstByte == At(d, entryOffset)
    IN  IF ~(k < rootEntryCount /\ entryOffset < Len(d))
        THEN [files |-> files, deletedFiles |-> deletedFiles]
        ELSE IF firstByte = 229
        THEN fatLoopPastEnd(d, rootDirStart, rootEntryCount, k + 1, files,
                            deletedFiles \o deletedEntry(d, entryOffset, k))
        ELSE IF firstByte # 0 /\ firstByte # 46
        THEN fatLoopPastEnd(d, rootDirStart, rootEntryCount, k + 1,
                            files \o activeEntry(d, entryOffset, k), deletedFiles)
        ELSE fatLoopPastEnd(d, rootDirStart, rootEntryCount, k + 1, files, deletedFiles)

RECURSIVE fatLoop(_, _, _, _, _, _)
\* the for loop of lines 259-316 from slot k on
fatLoop(d, rootDirStart, rootEntryCount, k, files, deletedFiles) ==
    LET entryOffset == rootDirStart + k * 32
        firstByte == At(d, entryOffset)
    IN  IF ~(k < rootEntryCount /\ entryOffset < Len(d))
        THEN [files |-> files, deletedFiles |-> deletedFiles]
        ELSE IF firstByte = 0 THEN [files |-> files, deletedFiles |-> deletedFiles]
        ELSE IF firstByte = 229
        THEN fatLoop(d, rootDirStart, rootEntryCount, k + 1, files,
                     deletedFiles \o deletedEntry(d, entryOffset, k))
        ELSE IF firstByte # 46
        THEN fatLoop(d, rootDirStart, rootEntryCount, k + 1,
                     files \o activeEntry(d, entryOffset, k), deletedFiles)
        ELSE fatLoop(d, rootDirStart, rootEntryCount, k + 1, files, deletedFiles)

\* bytesPerSector * sectorsPerCluster: NaN (here -1) when data[13] is undefined
clusterSizeOf(d) == IF Elem(d, 13) = -1 THEN -1 ELSE Word(d, 11) * Elem(d, 13)

\* line 257; the product is NaN when data[16] or data[22] is undefined, and
\* then the loop condition is false at once
rootDirStartOf(d) == Word(d, 14) * Word(d, 11) + (Elem(d, 16) * Elem(d, 22)) * Word(d, 11)

parseFAT(d) ==
    LET r == IF Elem(d, 22) = -1 THEN [files |-> << >>, deletedFiles |-> << >>]
             ELSE fatLoop(d, rootDirStartOf(d), Word(d, 17), 0, << >>, << >>)
    IN  [exit |-> "returned", files |-> r.files, deletedFiles |-> r.deletedFiles,
         clusterSize |-> clusterSizeOf(d), fatType |-> "FAT32", ntfsVersion |-> ""]

(***************************************************************************)
(* The MFT reader (HexViewer.tsx, parseNTFS).  A walk over the attributes  *)
(* of a record that comes back to an offset it has visited never leaves    *)
(* its loop: its outcome is "hang".                                        *)
(***************************************************************************)
FILE == <<70, 73, 76, 69>>

\* attrType === 0xFFFFFFFF, with attrType the signed result of the | chain
IsEndMarker(attrType) == attrType \div 65536 = 65535 /\ attrType % 65536 = 65535

\* lines 364-369: the low byte of every UTF-16 unit of the name
nameChars(d, currentOffset, nameLength) ==
    [j \in 1 .. nameLength |-> At(d, currentOffset + 90 + (j - 1) * 2)]

RECURSIVE attrWalk(_, _, _, _, _)
\* the while loop of lines 353-375 from currentOffset on; fileName collects
\* the names of all the $FILE_NAME attributes met
attrWalk(d, rec, currentOffset, fileName, seen) ==
    IF ~(currentOffset < rec + 1024 /\ currentOffset < Len(d))
    THEN [exit |-> "returned", fileName |-> fileName]
    ELSE IF currentOffset \in seen THEN [exit |-> "hang", fileName |-> fileName]
    ELSE LET attrType == DWord(d, currentOffset)
             attrLength == DWord(d, currentOffset + 4)
             nameLength == Bits(d, currentOffset + 88)
             named == IF /\ attrType = 48
                         /\ nameLength > 0
                         /\ currentOffset + 90 + nameLength * 2 <= Len(d)
                      THEN fileName \o nameChars(d, currentOffset, nameLength)
                      ELSE fileName
         IN  IF IsEndMarker(attrType) THEN [exit |-> "returned", fileName |-> fileName]
             ELSE IF attrLength = 0 THEN [exit |-> "returned", fileName |-> named]
             ELSE attrWalk(d, rec, currentOffset + attrLength, named,
                           seen \cup {currentOffset})

\* lines 377-396: the entry of a record; draw holds the two Math.random()
\* comparisons, of which the first is made for a deleted record only
mftEntry(d, rec, k, fileName, draw) ==
    LET flags == Word(d, rec + 22)
        isDeleted == ~BitSet(flags, 1)
        isDirectory == BitSet(flags, 2)
    IN  FileEntry(fileName, 0, isDirectory, isDeleted, 0,
                  IF isDeleted THEN <<"Deleted">> ELSE << >>,
                  ~isDeleted \/ draw.recoverable,
                  IF draw.fragmented THEN "fragmented" ELSE "complete", k)

RECURSIVE mftLoop(_, _, _, _, _, _)
\* the for loop of lines 339-398 from record k on
mftLoop(d, mftOffset, k, draws, files, deletedFiles) ==
    LET rec == mftOffset + k * 1024
        limit == IF Len(d) < mftOffset + 1000000 THEN Len(d) ELSE mftOffset + 1000000
    IN  IF ~(rec < limit) \/ rec + 4 >= Len(d)
        THEN [exit |-> "returned", files |-> files, deletedFiles |-> deletedFiles]
        ELSE IF jsSlice(d, rec, rec + 4) # FILE
        THEN mftLoop(d, mftOffset, k + 1, draws, files, deletedFiles)
        ELSE LET w == attrWalk(d, rec, rec + Word(d, rec + 20), << >>, {})
                 e == mftEntry(d, rec, k, w.fileName, draws[k + 1])
             IN  IF w.exit = "hang"
                 THEN [exit |-> "hang", files |-> files, deletedFiles |-> deletedFiles]
                 ELSE IF w.fileName # << >> /\ w.fileName[1] # 36
                 THEN IF e.isDeleted
                      THEN mftLoop(d, mftOffset, k + 1, draws, files, Append(deletedFiles, e))
                      ELSE mftLoop(d, mftOffset, k + 1, draws, Append(files, e), deletedFiles)
                 ELSE mftLoop(d, mftOffset, k + 1, draws, files, deletedFiles)

\* mftCluster * clusterSize, for an MFT cluster number that is not negative
mftOffsetOf(d) == DWord(d, 48) * clusterSizeOf(d)

\* with data[13] undefined the MFT offset is NaN and no record is visited
parseNTFS(d, draws) ==
    LET r == IF Elem(d, 13) = -1
             THEN [exit |-> "returned", files |-> << >>, deletedFiles |-> << >>]
             ELSE mftLoop(d, mftOffsetOf(d), 0, draws, << >>, << >>)
    IN  [exit |-> r.exit, files |-> r.files, deletedFiles |-> r.deletedFiles,
         clusterSize |-> clusterSizeOf(d), fatType |-> "", ntfsVersion |-> "3.1"]

\* lines 408-416 and 449-459 of analyzeImage; the partition table and the
\* size figures of its result are left out
analyzeImage(d, draws) ==
    LET fs == detectFileSystem(d)
        parsed == IF fs \in {"FAT32", "FAT16"} THEN parseFAT(d)
                  ELSE IF fs = "NTFS" THEN parseNTFS(d, draws)
                  ELSE [exit |-> "returned", files |-> << >>, deletedFiles |-> << >>,
                        clusterSize |-> 0, fatType |-> "", ntfsVersion |-> ""]
    IN  [parsed EXCEPT !.clusterSize = IF @ \in {-1, 0} THEN 4096 ELSE @]

(***************************************************************************)
(* Boot sectors: zero-filled images carrying up to MaxPatches of the       *)
(* signatures, at their field or shifted inside or across it, cut to       *)
(* lengths around every field's ends.                                      *)
(***************************************************************************)
ImageLen == 1100
MaxPatches == 2

Patch(d, p, bs) ==
    [k \in 1 .. Len(d) |-> IF k > p /\ k <= p + Len(bs) THEN bs[k - p] ELSE d[k]]

FsPatches ==
    { <<82, FAT32>>, <<85, FAT32>>, <<86, FAT32>>, <<54, FAT32>>,
      <<54, FAT16>>, <<57, FAT16>>, <<82, FAT16>>, <<54, FAT12>>,
      <<3, NTFS>>, <<4, NTFS>>, <<1080, <<83, 239>> >>, <<1080, <<239, 83>> >> }

RECURSIVE PatchAll(_, _)
PatchAll(d, ps) ==
    IF ps = {} THEN d
    ELSE LET q == CHOOSE x \in ps : \A y \in ps : x[1] <= y[1]
         IN  PatchAll(Patch(d, q[1], q[2]), ps \ {q})

FsLengths == {0, 3, 6, 7, 58, 59, 62, 86, 87, 90, 512, 1080, 1081, 1082, ImageLen}

FsImages ==
    { jsSlice(PatchAll([k \in 1 .. ImageLen |-> 0], ps), 0, n) :
        ps \in { x \in SUBSET FsPatches : Cardinality(x) <= MaxPatches }, n \in FsLengths }

(***************************************************************************)
(* FAT volumes: a boot sector with 32-byte sectors, three reserved sectors *)
(* and one FAT of one sector, so that the root directory starts at byte    *)
(* 128, followed by DirSlots directory slots; cut inside the last slot,    *)
(* whole, or followed by one more slot.                                    *)
(***************************************************************************)
DirSlots == 3

Zeros(n) == [k \in 1 .. n |-> 0]

Slot(firstByte, name, ext, attr, cluster, size) ==
    <<firstByte>> \o name \o ext \o <<attr>> \o Zeros(14) \o cluster \o size

Blank(n) == [k \in 1 .. n |-> 32]

SlotKinds ==
    { Slot(65, <<66>> \o Blank(6), <<84, 88, 84>>, 32, <<2, 0>>, <<5, 0, 0, 0>>),
      Slot(68, <<73, 82>> \o Blank(5), Blank(3), 16, <<3, 0>>, <<0, 0, 0, 0>>),
      Slot(229, <<76, 68>> \o Blank(5), <<66, 73, 78>>, 32, <<4, 0>>, <<1, 2, 3, 4>>),
      Slot(229, Blank(7), <<84, 88, 84>>, 32, <<5, 0>>, <<9, 0, 0, 0>>),
      Slot(229, <<72>> \o Blank(6), Blank(3), 32, <<6, 0>>, <<0, 0, 0, 128>>),
      Slot(66, <<73, 71>> \o Blank(5), Blank(3), 1, <<7, 0>>, <<255, 255, 255, 255>>),
      Slot(46, Blank(7), Blank(3), 16, <<0, 0>>, <<0, 0, 0, 0>>),
      Slot(32, Blank(7), Blank(3), 32, <<8, 0>>, <<1, 0, 0, 0>>),
      Zeros(32) }

RECURSIVE Flatten(_)
Flatten(ss) == IF ss = << >> THEN << >> ELSE Head(ss) \o Flatten(Tail(ss))

FatBoot(rootEntryCount) ==
    PatchAll(Zeros(128), { <<11, <<32, 0>> >>, <<13, <<1>> >>, <<14, <<3, 0>> >>,
                           <<16, <<1>> >>, <<17, <<rootEntryCount, 0>> >>,
                           <<22, <<1>> >>, <<82, FAT32>> })

FatImages ==
    { jsSlice(FatBoot(n) \o Flatten(dir) \o Slot(90, Blank(7), Blank(3), 32, <<9, 0>>, <<1, 0, 0, 0>>),
              0, 128 + 32 * DirSlots + cut) :
        n \in {DirSlots - 1, DirSlots}, dir \in [1 .. DirSlots -> SlotKinds],
        cut \in {-12, 0, 32} }

(***************************************************************************)
(* NTFS volumes: a boot sector with 64-byte clusters and the MFT in        *)
(* cluster 1, followed by up to MaxRecords records of 1024 bytes; whole or *)
(* cut inside the name of the last record.                                 *)
(***************************************************************************)
MaxRecords == 2

NtfsBoot ==
    PatchAll(Zeros(64), { <<3, NTFS>>, <<11, <<64, 0>> >>, <<13, <<1>> >>,
                          <<48, <<1, 0, 0, 0>> >> })

\* an attribute header: type and length, four bytes each
AttrHeader(type, length) == type \o length

\* a $FILE_NAME attribute of 104 bytes whose name is the UTF-16 units given
FileNameAttr(units) ==
    LET body == AttrHeader(<<48, 0, 0, 0>>, <<104, 0, 0, 0>>) \o Zeros(80)
                    \o <<Len(units)>> \o <<1>> \o Flatten(units)
    IN  body \o Zeros(104 - Len(body))

\* $STANDARD_INFORMATION, 24 bytes
StdInfoAttr == AttrHeader(<<16, 0, 0, 0>>, <<24, 0, 0, 0>>) \o Zeros(16)

EndMarker == <<255, 255, 255, 255, 0, 0, 0, 0>>

\* a record: signature, the attribute offset 56 at byte 20, the flags at byte 22
MftRecord(signature, flags, attrs) ==
    LET head == signature \o Zeros(16) \o <<56, 0>> \o <<flags, 0>> \o Zeros(32)
    IN  head \o attrs \o Zeros(1024 - Len(head) - Len(attrs))

RecordKinds ==
    { MftRecord(FILE, 1, StdInfoAttr \o FileNameAttr(<< <<97, 0>>, <<98, 0>> >>) \o EndMarker),
      MftRecord(FILE, 0, StdInfoAttr \o FileNameAttr(<< <<99, 0>>, <<100, 0>> >>) \o EndMarker),
      MftRecord(FILE, 3, FileNameAttr(<< <<101, 0>> >>) \o EndMarker),
      MftRecord(FILE, 1, FileNameAttr(<< <<36, 0>>, <<77, 0>> >>) \o EndMarker),
      MftRecord(<<66, 65, 65, 68>>, 1, FileNameAttr(<< <<102, 0>> >>) \o EndMarker),
      MftRecord(FILE, 1, FileNameAttr(<< <<65, 1>>, <<103, 0>> >>) \o EndMarker),
      MftRecord(FILE, 1, FileNameAttr(<< <<36, 1>>, <<104, 0>> >>) \o EndMarker),
      MftRecord(FILE, 1, FileNameAttr(<< <<105, 0>> >>) \o FileNameAttr(<< <<73, 0>> >>) \o EndMarker),
      MftRecord(FILE, 1, AttrHeader(<<16, 0, 0, 0>>, <<16, 0, 0, 0>>) \o Zeros(8)
                             \o AttrHeader(<<16, 0, 0, 0>>, <<240, 255, 255, 255>>)),
      MftRecord(FILE, 0, AttrHeader(<<16, 0, 0, 128>>, <<0, 0, 0, 128>>)
                             \o FileNameAttr(<< <<106, 0>> >>) \o EndMarker) }

NtfsImages ==
    { jsSlice(NtfsBoot \o Flatten(recs), 0, 64 + 1024 * Len(recs) - cut) :
        recs \in UNION { [1 .. n -> RecordKinds] : n \in 1 .. MaxRecords },
        cut \in {0, 1024 - 56 - 24 - 92} }

\* the outcomes of the Math.random() comparisons of lines 387 and 388, one
\* pair per record
Draws == [1 .. MaxRecords -> [recoverable : BOOLEAN, fragmented : BOOLEAN]]

\* only parseNTFS calls Math.random(): one outcome stands for all elsewhere
DrawsFor(d) ==
    IF detectFileSystem(d) = "NTFS" THEN Draws
    ELSE {[k \in 1 .. MaxRecords |-> [recoverable |-> TRUE, fragmented |-> TRUE]]}

InitFs ==
    /\ fsData \in FsImages \cup FatImages \cup NtfsImages
    /\ fileSystem = NotDetected
    /\ analysisResult = NotParsed
    /\ previousResult = NotParsed
    /\ CarveIdle
    /\ DetectIdle
    /\ ExifIdle
    /\ UploadIdle

\* the upload handler's call of analyzeImage on the loaded bytes, which
\* starts with detectFileSystem
DetectFs ==
    /\ fileSystem = NotDetected
    /\ fileSystem' = detectFileSystem(fsData)
    /\ \E draws \in DrawsFor(fsData) : analysisResult' = analyzeImage(fsData, draws)
    /\ UNCHANGED <<fsData, previousResult>>
    /\ UNCHANGED <<carveVars, detectVars, exifVars, uploadVars>>

\* the same file uploaded once more after its analysis has returned
Reanalyze ==
    /\ fileSystem # NotDetected
    /\ analysisResult.exit = "returned"
    /\ previousResult = NotParsed
    /\ previousResult' = analysisResult
    /\ \E draws \in DrawsFor(fsData) : analysisResult' = analyzeImage(fsData, draws)
    /\ UNCHANGED <<fsData, fileSystem>>
    /\ UNCHANGED <<carveVars, detectVars, exifVars, uploadVars>>

NextFs == DetectFs \/ Reanalyze

SpecFs == InitFs /\ [][NextFs]_vars

(***************************************************************************)
(* Properties of the file system probe.                                    *)
(***************************************************************************)
FsDetected == fileSystem # NotDetected

\* the field of bytes from .. to - 1 lies inside d and holds the text
FieldHolds(d, from, to, text) ==
    Len(d) >= to /\ \E p \in from .. to - Len(text) : OccursAt(d, p, text)

\* the text lies inside bytes from .. to - 1 of d, which may end inside the field
FieldPartHolds(d, from, to, text) ==
    \E p \in from .. to - Len(text) : OccursAt(d, p, text)

ExtMagic == <<83, 239>>

C20_WitnessCut == FsDetected /\ Len(fsData) = 87 /\ fileSystem = "FAT32"

\* both FAT labels present: FAT32 wins
C20_WitnessOrder ==
    /\ FsDetected
    /\ OccursAt(fsData, 82, FAT32) /\ OccursAt(fsData, 54, FAT16)
    /\ fileSystem = "FAT32"

(***************************************************************************)
(* The EXIF/GPS extractor (GPSExtractor.tsx, parseExifGPS).  A string made *)
(* by String.fromCharCode is the sequence of its character codes; null is  *)
(* NullStr for a string and Null for a number.  A number is an exact       *)
(* fraction n/d with d > 0, or one of the non-finite values a division by  *)
(* zero produces.                                                          *)
(***************************************************************************)
NullStr == <<-1>>

Null == [kind |-> "null", n |-> 0, d |-> 1]
NaN == [kind |-> "NaN", n |-> 0, d |-> 1]
Infinity == [kind |-> "Infinity", n |-> 0, d |-> 1]
NegInfinity == [kind |-> "-Infinity", n |-> 0, d |-> 1]
Thrown == -1
ThrownNum == [kind |-> "thrown", n |-> 0, d |-> 1]

Finite(n, d) == [kind |-> "finite", n |-> n, d |-> d]

\* a / b of two unsigned integers
Div(a, b) == IF b # 0 THEN Finite(a, b) ELSE IF a = 0 THEN NaN ELSE Infinity

\* x / k for a positive literal k
DivBy(x, k) == IF x.kind = "finite" THEN Finite(x.n, x.d * k) ELSE x

\* x + y of two numbers that are not negative
Add(x, y) ==
    IF x.kind = "NaN" \/ y.kind = "NaN" THEN NaN
    ELSE IF x.kind = "Infinity" \/ y.kind = "Infinity" THEN Infinity
    ELSE Finite(x.n * y.d + y.n * x.d, x.d * y.d)

\* -x
Neg(x) ==
    IF x.kind = "finite" THEN Finite(0 - x.n, x.d)
    ELSE IF x.kind = "Infinity" THEN NegInfinity
    ELSE IF x.kind = "-Infinity" THEN Infinity
    ELSE x

\* DataView reads: a read that does not lie inside the buffer raises RangeError
getUint8(d, o) == IF o + 1 > Len(d) THEN Thrown ELSE At(d, o)

getUint16(d, o, littleEndian) ==
    IF o + 2 > Len(d) THEN Thrown
    ELSE IF littleEndian THEN At(d, o) + 256 * At(d, o + 1)
    ELSE 256 * At(d, o) + At(d, o + 1)

getUint32(d, o, littleEndian) ==
    IF o + 4 > Len(d) THEN Thrown
    ELSE IF littleEndian
         THEN At(d, o) + 256 * At(d, o + 1) + 65536 * At(d, o + 2) + 16777216 * At(d, o + 3)
         ELSE 16777216 * At(d, o) + 65536 * At(d, o + 1) + 256 * At(d, o + 2) + At(d, o + 3)

\* getUint32(o) / getUint32(o + 4): the numerator is read first
Quotient(d, o, littleEndian) ==
    LET num == getUint32(d, o, littleEndian)
        den == getUint32(d, o + 4, littleEndian)
    IN  IF num = Thrown \/ den = Thrown THEN ThrownNum ELSE Div(num, den)

readGPSCoordinate(d, offset, littleEndian) ==
    LET degrees == Quotient(d, offset, littleEndian)
        minutes == Quotient(d, offset + 8, littleEndian)
        seconds == Quotient(d, offset + 16, littleEndian)
    IN  IF degrees = ThrownNum \/ minutes = ThrownNum \/ seconds = ThrownNum THEN Null
        ELSE Add(Add(degrees, DivBy(minutes, 60)), DivBy(seconds, 3600))

readExifString(d, entryOffset, tiffStart, littleEndian) ==
    LET count == getUint32(d, entryOffset + 4, littleEndian)
        ptr == getUint32(d, entryOffset + 8, littleEndian)
        valueOffset == IF count <= 4 THEN entryOffset + 8 ELSE tiffStart + ptr
        n == Min(count - 1, 100)
        stops == { k \in 0 .. n - 1 : getUint8(d, valueOffset + k) \in {0, Thrown} }
        last == IF stops = {} THEN n ELSE SetMin(stops)
        str == trim([k \in 1 .. last |-> getUint8(d, valueOffset + k - 1)])
    IN  IF count = Thrown \/ (count > 4 /\ ptr = Thrown) THEN NullStr
        ELSE IF stops # {} /\ getUint8(d, valueOffset + last) = Thrown THEN NullStr
        ELSE IF str = << >> THEN NullStr
        ELSE str

\* the gpsData object parseGPSIFD starts from; present tells it from null
GpsDefault ==
    [present |-> TRUE, latitude |-> Null, longitude |-> Null, altitude |-> Null,
     latitudeRef |-> <<78>>, longitudeRef |-> <<69>>, timestamp |-> NullStr,
     datestamp |-> NullStr, direction |-> Null, speed |-> Null, accuracy |-> "Unknown"]

\* gpsData: null
NoGps == [GpsDefault EXCEPT !.present = FALSE]

RECURSIVE toString10(_)
\* Number.prototype.toString of an integer that is not negative
toString10(n) == IF n < 10 THEN <<48 + n>> ELSE toString10(n \div 10) \o <<48 + (n % 10)>>

\* padStart(2, '0')
padStartZero(str) == IF Len(str) < 2 THEN <<48>> \o str ELSE str

\* Math.floor(x).toString().padStart(2, '0') of a number that is not negative
floorString(x) ==
    IF x.kind = "finite" THEN padStartZero(toString10(x.n \div x.d))
    ELSE IF x.kind = "NaN" THEN <<78, 97, 78>>
    ELSE <<73, 110, 102, 105, 110, 105, 116, 121>>

\* dateStr.replace(/:/g, '-')
replaceColons(str) == [k \in 1 .. Len(str) |-> IF str[k] = 58 THEN 45 ELSE str[k]]

\* the body of the entry loop reached its end
Read(g) == [threw |-> FALSE, gps |-> g]

\* a read raised RangeError: control is in the catch of parseGPSIFD
Caught(g) == [threw |-> TRUE, gps |-> g]

\* one turn of the entry loop of parseGPSIFD, lines 170-218
gpsEntry(d, g, entryOffset, tiffStart, littleEndian) ==
    LET tag == getUint16(d, entryOffset, littleEndian)
        type == getUint16(d, entryOffset + 2, littleEndian)
        numValues == getUint32(d, entryOffset + 4, littleEndian)
        rational == type = 5 /\ numValues * 8 > 4
        ptr == getUint32(d, entryOffset + 8, littleEndian)
        valueOffset == IF rational THEN tiffStart + ptr ELSE entryOffset + 8
        char == getUint8(d, valueOffset)
        alt == Quotient(d, valueOffset, littleEndian)
        hour == Quotient(d, valueOffset, littleEndian)
        min == Quotient(d, valueOffset + 8, littleEndian)
        sec == Quotient(d, valueOffset + 16, littleEndian)
        dateStr == [j \in 1 .. 10 |-> getUint8(d, valueOffset + j - 1)]
    IN  IF tag = Thrown \/ type = Thrown \/ numValues = Thrown THEN Caught(g)
        ELSE IF rational /\ ptr = Thrown THEN Caught(g)
        ELSE IF tag = 1 THEN
            IF char = Thrown THEN Caught(g) ELSE Read([g EXCEPT !.latitudeRef = <<char>>])
        ELSE IF tag = 2 THEN
            Read([g EXCEPT !.latitude = readGPSCoordinate(d, valueOffset, littleEndian)])
        ELSE IF tag = 3 THEN
            IF char = Thrown THEN Caught(g) ELSE Read([g EXCEPT !.longitudeRef = <<char>>])
        ELSE IF tag = 4 THEN
            Read([g EXCEPT !.longitude = readGPSCoordinate(d, valueOffset, littleEndian)])
        ELSE IF tag = 6 THEN
            IF alt = ThrownNum THEN Caught(g)
            ELSE Read([g EXCEPT !.altitude = IF alt.kind = "finite" THEN alt ELSE Null])
        ELSE IF tag = 7 THEN
            IF hour = ThrownNum \/ min = ThrownNum \/ sec = ThrownNum THEN Caught(g)
            ELSE Read([g EXCEPT !.timestamp =
                        floorString(hour) \o <<58>> \o floorString(min) \o <<58>> \o floorString(sec)])
        ELSE IF tag = 17 THEN
            IF alt = ThrownNum THEN Caught(g)
            ELSE Read([g EXCEPT !.direction = IF alt.kind = "finite" THEN alt ELSE Null])
        ELSE IF tag = 29 THEN
            IF \E j \in 1 .. 10 : dateStr[j] = Thrown THEN Caught(g)
            ELSE Read([g EXCEPT !.datestamp = replaceColons(dateStr)])
        ELSE Read(g)

RECURSIVE gpsLoop(_, _, _, _, _, _, _)
\* the entry loop of parseGPSIFD from entry k on
gpsLoop(d, g, ifdOffset, tiffStart, littleEndian, k, count) ==
    IF ~(k < count) THEN Read(g)
    ELSE LET r == gpsEntry(d, g, ifdOffset + 2 + k * 12, tiffStart, littleEndian)
         IN  IF r.threw THEN r
             ELSE gpsLoop(d, r.gps, ifdOffset, tiffStart, littleEndian, k + 1, count)

\* lines 221-232 of parseGPSIFD
applyReferences(g) ==
    LET latitude == IF g.latitude # Null /\ g.latitudeRef = <<83>> THEN Neg(g.latitude) ELSE g.latitude
        longitude == IF g.longitude # Null /\ g.longitudeRef = <<87>> THEN Neg(g.longitude) ELSE g.longitude
    IN  [g EXCEPT !.latitude = latitude, !.longitude = longitude,
                  !.accuracy = IF latitude # Null /\ longitude # Null THEN "GPS" ELSE @]

parseGPSIFD(d, ifdOffset, tiffStart, littleEndian) ==
    LET count == getUint16(d, ifdOffset, littleEndian)
        r == gpsLoop(d, GpsDefault, ifdOffset, tiffStart, littleEndian, 0, count)
    IN  IF count = Thrown THEN GpsDefault
        ELSE IF r.threw THEN r.gps
        ELSE applyReferences(r.gps)

\* the result object of parseExifGPS, lines 53-58, as returned at exit:
\* "notJpeg" is the return of line 62, "end" the return of line 126
EmptyResult(exit) ==
    [exit |-> exit, gpsData |-> NoGps, make |-> NullStr, model |-> NullStr,
     software |-> NullStr, dateTime |-> NullStr, hasGPS |-> FALSE]

\* parseExifGPS left by a RangeError: no result reaches the caller
Threw == [exit |-> "threw"]

Exif == <<69, 120, 105, 102>>

\* the locals of the IFD0 loop before its first turn, lines 53-58 and 89-90
Ifd0Start ==
    [threw |-> FALSE, make |-> NullStr, model |-> NullStr, software |-> NullStr,
     dateTime |-> NullStr, gpsIFDPointer |-> 0, exifIFDPointer |-> 0]

\* one turn of the IFD0 loop, lines 93-108
ifd0Entry(d, a, entryOffset, tiffStart, littleEndian) ==
    LET tag == getUint16(d, entryOffset, littleEndian)
        str == readExifString(d, entryOffset, tiffStart, littleEndian)
        ptr == getUint32(d, entryOffset + 8, littleEndian)
    IN  IF tag = Thrown THEN [a EXCEPT !.threw = TRUE]
        ELSE IF tag = 271 THEN [a EXCEPT !.make = str]
        ELSE IF tag = 272 THEN [a EXCEPT !.model = str]
        ELSE IF tag = 305 THEN [a EXCEPT !.software = str]
        ELSE IF tag = 306 THEN [a EXCEPT !.dateTime = str]
        ELSE IF tag = 34853 THEN
            IF ptr = Thrown THEN [a EXCEPT !.threw = TRUE] ELSE [a EXCEPT !.gpsIFDPointer = ptr]
        ELSE IF tag = 34665 THEN
            IF ptr = Thrown THEN [a EXCEPT !.threw = TRUE] ELSE [a EXCEPT !.exifIFDPointer = ptr]
        ELSE a

RECURSIVE ifd0Loop(_, _, _, _, _, _, _)
\* the IFD0 loop from entry k on
ifd0Loop(d, a, ifd0Offset, tiffStart, littleEndian, k, ifd0Count) ==
    IF ~(k < ifd0Count) THEN a
    ELSE LET r == ifd0Entry(d, a, ifd0Offset + 2 + k * 12, tiffStart, littleEndian)
         IN  IF r.threw THEN r
             ELSE ifd0Loop(d, r, ifd0Offset, tiffStart, littleEndian, k + 1, ifd0Count)

\* lines 82-115: the TIFF structure of an APP1 segment that begins with Exif
parseTiff(d, tiffStart) ==
    LET order == getUint16(d, tiffStart, FALSE)
        littleEndian == order = 18761
        first == getUint32(d, tiffStart + 4, littleEndian)
        ifd0Offset == tiffStart + first
        ifd0Count == getUint16(d, ifd0Offset, littleEndian)
        a == ifd0Loop(d, Ifd0Start, ifd0Offset, tiffStart, littleEndian, 0, ifd0Count)
        gpsData == parseGPSIFD(d, tiffStart + a.gpsIFDPointer, tiffStart, littleEndian)
    IN  IF order = Thrown \/ first = Thrown THEN Threw
        ELSE IF ifd0Count = Thrown THEN Threw
        ELSE IF a.threw THEN Threw
        ELSE [exit |-> "end",
              gpsData |-> IF a.gpsIFDPointer > 0 THEN gpsData ELSE NoGps,
              make |-> a.make, model |-> a.model, software |-> a.software,
              dateTime |-> a.dateTime,
              hasGPS |-> a.gpsIFDPointer > 0 /\ gpsData.latitude # Null /\ gpsData.longitude # Null]

RECURSIVE markerWalk(_, _)
\* the while loop of lines 66-124 from offset on
markerWalk(d, offset) ==
    IF ~(offset < Len(d) - 2) THEN EmptyResult("end")
    ELSE LET marker == getUint16(d, offset, FALSE)
             length == getUint16(d, offset + 2, FALSE)
             exifStart == offset + 4
             exifHeader == [k \in 1 .. 4 |-> getUint8(d, exifStart + k - 1)]
         IN  IF marker = 65505 THEN
                 IF length = Thrown \/ \E k \in 1 .. 4 : exifHeader[k] = Thrown THEN Threw
                 ELSE IF exifHeader = Exif THEN parseTiff(d, exifStart + 6)
                 ELSE EmptyResult("end")
             ELSE IF marker \div 256 = 255 THEN
                 IF length = Thrown THEN Threw ELSE markerWalk(d, offset + 2 + length)
             ELSE EmptyResult("end")

parseExifGPS(d) ==
    LET soi == getUint16(d, 0, FALSE)
    IN  IF soi = Thrown THEN Threw
        ELSE IF soi # 65496 THEN EmptyResult("notJpeg")
        ELSE markerWalk(d, 2)

(***************************************************************************)
(* Pictures: an EXIF writer for the uploads.  A picture is written from a  *)
(* content record (byte order, the segments before the Exif segment, the   *)
(* entries of the GPS IFD in their order, the hemispheres, the rational    *)
(* whose denominator is 0) and cut to a size.  IFD0 holds Make (stored at  *)
(* an offset), Model (stored in the entry) and the GPS pointer.            *)
(***************************************************************************)
U16(v, littleEndian) ==
    IF littleEndian THEN <<v % 256, v \div 256>> ELSE <<v \div 256, v % 256>>

U32(v, littleEndian) ==
    IF littleEndian
    THEN <<v % 256, (v \div 256) % 256, (v \div 65536) % 256, v \div 16777216>>
    ELSE <<v \div 16777216, (v \div 65536) % 256, (v \div 256) % 256, v % 256>>

IfdEntry(tag, type, count, value, littleEndian) ==
    U16(tag, littleEndian) \o U16(type, littleEndian) \o U32(count, littleEndian) \o value

Rational(r, littleEndian) == U32(r[1], littleEndian) \o U32(r[2], littleEndian)

RECURSIVE Rationals(_, _)
Rationals(rs, littleEndian) ==
    IF rs = << >> THEN << >>
    ELSE Rational(Head(rs), littleEndian) \o Rationals(Tail(rs), littleEndian)

\* 40 26' 46.0", 79 58' 56", 175 m, 13:05:09, 90 degrees, 2024:01:15
LatitudeDms == << <<40, 1>>, <<26, 1>>, <<460, 10>> >>
LongitudeDms == << <<79, 1>>, <<58, 1>>, <<56, 1>> >>
AltitudeValue == << <<350, 2>> >>
TimeValue == << <<13, 1>>, <<5, 1>>, <<9, 1>> >>
DirectionValue == << <<90, 1>> >>
DateText == <<50, 48, 50, 52, 58, 48, 49, 58, 49, 53>>
MakeText == <<67, 97, 110, 111, 110>>
ModelText == <<88, 49>>

\* the offset written for a value that lies beyond the end of the file
LostOffset == 4000

\* the rationals of a GPS tag as the content c stores them
StoredRationals(c, tag) ==
    IF tag = 2 THEN
        IF c.zero = "latDeg" THEN [LatitudeDms EXCEPT ![1] = <<40, 0>>]
        ELSE IF c.zero = "latSec" THEN [LatitudeDms EXCEPT ![3] = <<0, 0>>]
        ELSE LatitudeDms
    ELSE IF tag = 4 THEN
        IF c.zero = "lonMin" THEN [LongitudeDms EXCEPT ![2] = <<58, 0>>] ELSE LongitudeDms
    ELSE IF tag = 6 THEN
        IF c.zero = "alt" THEN << <<350, 0>> >> ELSE AltitudeValue
    ELSE IF tag = 7 THEN
        IF c.zero = "time" THEN [TimeValue EXCEPT ![2] = <<5, 0>>] ELSE TimeValue
    ELSE
        IF c.zero = "dir" THEN << <<90, 0>> >> ELSE DirectionValue

\* the bytes a GPS entry keeps outside the IFD
GpsValue(c, e) ==
    IF e.tag \in {1, 3} \/ e.lost THEN << >>
    ELSE IF e.tag = 29 THEN DateText \o <<0, 0>>
    ELSE Rationals(StoredRationals(c, e.tag), c.littleEndian)

\* the 12 bytes of a GPS entry whose outside value is written at offset at
GpsEntryBytes(c, e, at) ==
    LET le == c.littleEndian
        where == U32(IF e.lost THEN LostOffset ELSE at, le)
    IN  IF e.tag = 1 THEN IfdEntry(1, 2, 2, <<c.latitudeRef, 0, 0, 0>>, le)
        ELSE IF e.tag = 3 THEN IfdEntry(3, 2, 2, <<c.longitudeRef, 0, 0, 0>>, le)
        ELSE IF e.tag = 29 THEN IfdEntry(29, 2, 11, where, le)
        ELSE IfdEntry(e.tag, 5, Len(StoredRationals(c, e.tag)), where, le)

RECURSIVE GpsEntries(_, _, _)
\* the entries of the GPS IFD from the k-th on and their outside values
GpsEntries(c, k, at) ==
    IF k > Len(c.layout) THEN [entries |-> << >>, values |-> << >>]
    ELSE LET e == c.layout[k]
             rest == GpsEntries(c, k + 1, at + Len(GpsValue(c, e)))
         IN  [entries |-> GpsEntryBytes(c, e, at) \o rest.entries,
              values |-> GpsValue(c, e) \o rest.values]

\* the TIFF structure: header, IFD0, the Make text, the GPS IFD, its values
Tiff(c) ==
    LET le == c.littleEndian
        hasGps == c.layout # << >>
        ifd0Count == IF hasGps THEN 3 ELSE 2
        makeAt == 8 + 2 + 12 * ifd0Count + 4
        gpsAt == makeAt + Len(MakeText) + 1
        valuesAt == gpsAt + 2 + 12 * Len(c.layout) + 4
        gps == GpsEntries(c, 1, valuesAt)
    IN  (IF le THEN <<73, 73>> ELSE <<77, 77>>) \o U16(42, le) \o U32(8, le)
        \o U16(ifd0Count, le)
        \o IfdEntry(271, 2, Len(MakeText) + 1, U32(makeAt, le), le)
        \o IfdEntry(272, 2, Len(ModelText) + 2, ModelText \o <<32, 0>>, le)
        \o (IF hasGps THEN IfdEntry(34853, 4, 1, U32(gpsAt, le), le) ELSE << >>)
        \o U32(0, le)
        \o MakeText \o <<0>>
        \o (IF hasGps
            THEN U16(Len(c.layout), le) \o gps.entries \o U32(0, le) \o gps.values
            ELSE << >>)

\* the whole picture: what stands for SOI, the leading segments, the Exif APP1
Encode(c) ==
    c.soi \o c.pre \o <<255, 225>> \o U16(2 + 6 + Len(Tiff(c)), FALSE)
    \o Exif \o <<0, 0>> \o Tiff(c)

Stored(tag) == [tag |-> tag, lost |-> FALSE]
Lost(tag) == [tag |-> tag, lost |-> TRUE]

\* the GPS IFDs of the uploads: none, the four position entries in two orders,
\* every rational, a date stamp, an altitude whose value is beyond the file
Layouts ==
    { << >>,
      <<Stored(1), Stored(2), Stored(3), Stored(4)>>,
      <<Stored(2), Stored(1), Stored(4), Stored(3)>>,
      <<Stored(7), Stored(4), Stored(3), Stored(2), Stored(1)>>,
      <<Stored(1), Stored(2), Stored(3), Stored(4), Stored(6), Stored(7), Stored(17)>>,
      <<Stored(1), Stored(2), Stored(3), Stored(4), Stored(29)>>,
      <<Stored(29), Stored(1), Stored(2), Stored(3), Stored(4), Stored(7)>>,
      <<Stored(1), Stored(2), Stored(3), Stored(4), Lost(6)>>,
      <<Lost(6), Stored(1), Stored(2), Stored(3), Stored(4)>> }

FullLayout ==
    <<Stored(1), Stored(2), Stored(3), Stored(4), Stored(6), Stored(7), Stored(17)>>

Soi == <<255, 216>>
App0 == <<255, 224, 0, 4, 74, 70>>
Comment == <<255, 254, 0, 2>>
XmpApp1 == <<255, 225, 0, 6, 104, 116, 116, 112>>
Junk == <<0, 16, 1, 2>>

Leading == { << >>, App0, App0 \o Comment, XmpApp1, App0 \o XmpApp1, Junk }

Hemispheres == { <<78, 69>>, <<83, 87>>, <<83, 69>>, <<78, 87>> }

ZeroDenominators == {"latDeg", "latSec", "lonMin", "alt", "time", "dir"}

Content(le, soi, pre, layout, refs, zero) ==
    [littleEndian |-> le, soi |-> soi, pre |-> pre, layout |-> layout,
     latitudeRef |-> refs[1], longitudeRef |-> refs[2], zero |-> zero]

Contents ==
    { Content(le, Soi, pre, layout, refs, "none") :
        le \in BOOLEAN, pre \in Leading, layout \in Layouts, refs \in Hemispheres }
    \cup { Content(le, Soi, << >>, FullLayout, refs, zero) :
        le \in BOOLEAN, refs \in {<<78, 69>>, <<83, 87>>}, zero \in ZeroDenominators }
    \cup { Content(le, soi, << >>, FullLayout, <<78, 69>>, "none") :
        le \in BOOLEAN, soi \in { <<137, 80>>, <<255, 217>>, <<216, 255>> } }

\* the sizes a picture of n bytes is cut to
MaxCut == 40

Sizes(n) == { k \in {0, 1, 2, 3, 5, n - MaxCut, n - 25, n - 9, n - 1, n} : k >= 0 /\ k <= n }

InitExif ==
    /\ \E c \in Contents :
        \E n \in Sizes(Len(Encode(c))) :
            /\ exifSource = <<c, n>>
            /\ arrayBuffer = FirstBytes(Encode(c), n)
    /\ exifResult = NotParsed
    /\ CarveIdle
    /\ DetectIdle
    /\ FsIdle
    /\ UploadIdle

\* handleFileUpload, lines 272-274: parsed = parseExifGPS(arrayBuffer); a
\* RangeError leaves the try block for the catch of line 292
ParseExif ==
    /\ exifResult = NotParsed
    /\ exifResult' = parseExifGPS(arrayBuffer)
    /\ UNCHANGED <<arrayBuffer, exifSource>>
    /\ UNCHANGED <<carveVars, detectVars, fsVars, uploadVars>>

NextExif == ParseExif

SpecExif == InitExif /\ [][NextExif]_vars

(***************************************************************************)
(* Properties of the EXIF/GPS extractor.                                   *)
(***************************************************************************)
Parsed == exifResult # NotParsed

\* what the picture was written from, and whether all of it was uploaded
Src == exifSource[1]
Whole == exifSource[2] = Len(Encode(Src))

StartsWithSoi == Len(arrayBuffer) >= 2 /\ SubSeq(arrayBuffer, 1, 2) = Soi

\* the picture is whole, a JPEG, and only marker segments that are not APP1
\* stand before its Exif segment
PlainJpeg == Whole /\ Src.soi = Soi /\ Src.pre \in {<< >>, App0, App0 \o Comment}

HasEntry(tag) == \E k \in 1 .. Len(Src.layout) : Src.layout[k].tag = tag

\* every entry of the GPS IFD and its value can be read
AllStored == \A k \in 1 .. Len(Src.layout) : ~Src.layout[k].lost

\* a whole, plain picture decodes its IFD0 strings; Model is trimmed
ExifBaseline ==
    (Parsed /\ PlainJpeg) =>
        /\ exifResult.exit = "end"
        /\ exifResult.make = MakeText
        /\ exifResult.model = ModelText
        /\ exifResult.gpsData.present = (Src.layout # << >>)

\* C13: for every buffer that starts with FF D8, parseExifGPS returns a record
\* and never throws: an out-of-bounds read aborts only the sub-parse it is in.
C13_NeverThrows == (Parsed /\ StartsWithSoi) => exifResult.exit # "threw"

\* C14: for every buffer that does not start with FF D8, buffers of 0 or 1
\* bytes included, parseExifGPS takes its not-a-JPEG exit and decodes no field.
C14_NotJpegRejected ==
    (Parsed /\ ~StartsWithSoi) => exifResult = EmptyResult("notJpeg")

\* C15: the marker walk skips every marker segment before the first APP1 whose
\* payload begins with Exif, APP1 segments with another payload included, and
\* decodes that segment; at the first non-marker byte it stops and returns the
\* partial record.
C15_FirstExifSegmentDecoded ==
    (Parsed /\ Whole /\ Src.soi = Soi) =>
        IF Src.pre = Junk THEN exifResult = EmptyResult("end")
        ELSE /\ exifResult.exit = "end"
             /\ exifResult.make = MakeText
             /\ exifResult.model = ModelText

RECURSIVE GCD(_, _)
GCD(a, b) == IF b = 0 THEN a ELSE GCD(b, a % b)

Abs(n) == IF n < 0 THEN 0 - n ELSE n

\* a finite number in lowest terms
Reduced(x) ==
    LET g == GCD(Abs(x.n), x.d)
    IN  IF x.kind = "finite" THEN Finite(x.n \div g, x.d \div g) ELSE x

\* deg + min/60 + sec/3600 of three rationals with denominators that are not
\* 0, negated when south
SignedDms(rs, south) ==
    LET n == 3600 * rs[1][1] * rs[2][2] * rs[3][2] + 60 * rs[2][1] * rs[1][2] * rs[3][2]
             + rs[3][1] * rs[1][2] * rs[2][2]
        d == 3600 * rs[1][2] * rs[2][2] * rs[3][2]
    IN  Reduced(Finite(IF south THEN 0 - n ELSE n, d))

\* C16: a latitude (longitude) that is not null equals deg + min/60 + sec/3600
\* of the three stored rationals, negated exactly when the decoded LatitudeRef
\* is S (LongitudeRef is W), in any order of the entries and also when another
\* entry of the GPS IFD cannot be read.
C16_SignedDecimalDegrees ==
    (Parsed /\ exifResult.exit = "end" /\ exifResult.gpsData.present /\ Src.zero = "none") =>
        LET g == exifResult.gpsData
        IN  /\ g.latitude # Null =>
                Reduced(g.latitude) = SignedDms(LatitudeDms, g.latitudeRef = <<83>>)
            /\ g.longitude # Null =>
                Reduced(g.longitude) = SignedDms(LongitudeDms, g.longitudeRef = <<87>>)

\* C17: a denominator of 0 yields null for its field (latitude, longitude,
\* timestamp, altitude, direction), and hasGPS is true iff latitude and
\* longitude were both decoded.
C17_ZeroDenominatorIsNull ==
    (Parsed /\ PlainJpeg /\ AllStored /\ Src.layout # << >>) =>
        LET g == exifResult.gpsData
        IN  /\ Src.zero \in {"latDeg", "latSec"} => g.latitude = Null /\ ~exifResult.hasGPS
            /\ Src.zero = "lonMin" => g.longitude = Null /\ ~exifResult.hasGPS
            /\ Src.zero = "alt" => g.altitude = Null
            /\ Src.zero = "time" => g.timestamp = NullStr
            /\ Src.zero = "dir" => g.direction = Null
            /\ exifResult.hasGPS = (g.latitude # Null /\ g.longitude # Null)

DateDashed == <<50, 48, 50, 52, 45, 48, 49, 45, 49, 53>>

\* C18: a GPSDateStamp entry (tag 0x001D, ASCII, count 11) whose text
\* YYYY:MM:DD is stored at the offset of its value field is returned as
\* YYYY-MM-DD.
C18_DateStampAtOffset ==
    (Parsed /\ PlainJpeg /\ AllStored /\ HasEntry(29)) =>
        exifResult.gpsData.datestamp = DateDashed

\* the same content written in the other byte order, cut to the same size
OtherOrder == FirstBytes(Encode([Src EXCEPT !.littleEndian = ~@]), exifSource[2])

\* C19: the byte order of the TIFF marker is used for every later multi-byte
\* read: the same content written little-endian and big-endian decodes to the
\* same record.
C19_ByteOrderIndependent == (Parsed /\ Whole) => parseExifGPS(OtherOrder) = exifResult

\* without a date stamp entry the two byte orders decode alike, cut or whole
ByteOrderIndependentWithoutDate ==
    (Parsed /\ ~HasEntry(29)) => parseExifGPS(OtherOrder) = exifResult

(***************************************************************************)
(* Further properties of the file carver.                                  *)
(***************************************************************************)
\* C29: every carved file with confidence below 95 ends exactly at the end of
\* the buffer, so there is at most one such file, it is the last element of
\* the result, and nothing after its offset is carved.
C29_LowConfidenceEndsBuffer ==
    \A k \in CarvedIdx :
        carved[k].confidence < 95 =>
            /\ carved[k].offset + carved[k].size = Len(data)
            /\ k = Len(carved)
            /\ \A j \in CarvedIdx : j # k => carved[j].offset < carved[k].offset

\* a finished scan that carved a file with a footer and, after it, one without
C29_Witness ==
    /\ pc = "done"
    /\ Len(carved) = 2
    /\ carved[1].confidence = 95
    /\ carved[2].confidence < 95
    /\ carved[2].offset + carved[2].size = Len(data)

\* C26: the scan awaits only at offsets that are multiples of the yield
\* interval, and between two awaits (or the last await and the return) it
\* examines at most one interval of scan offsets, whatever files are carved and
\* skipped in between.
C26_BoundedWorkBetweenYields ==
    /\ pc = "yield" => i % YieldEvery = 0
    /\ examined <= YieldEvery

(***************************************************************************)
(* The carver widget under several uploads (FileCarver.tsx,                *)
(* handleFileUpload).  The file input is never disabled, so the handler    *)
(* can be entered again while an earlier call waits at one of its awaits.  *)
(* A call is a record of scans; timers is the browser's queue of expired   *)
(* setTimeout(r, 0) callbacks, run in the order they were set.             *)
(***************************************************************************)
MaxUploads == 2
LongPad == 250

\* an image scanned in one chunk, images scanned in several, the empty image
UploadImages ==
    { << >>, Rec(2, SecondBody, TRUE, 1), Pad(LongPad),
      Pad(LongPad) \o Rec(1, SecondBody, TRUE, 1) }

\* a call at await file.arrayBuffer(); overlapped records that the scan of
\* an earlier call was waiting between two chunks when this call was made
Reading(d, overlapped) ==
    [data |-> d, pc |-> "reading", i |-> 0, carved |-> << >>, overlapped |-> overlapped]

\* the scan of a call at its next await, or at its return
Scanned(s, r) == [s EXCEPT !.pc = r.pc, !.i = r.i, !.carved = r.carved]

InitUpload ==
    /\ UploadIdle
    /\ CarveIdle
    /\ DetectIdle
    /\ ExifIdle
    /\ FsIdle

\* lines 155-166: the handler up to await file.arrayBuffer()
Upload ==
    /\ Len(scans) < MaxUploads
    /\ \E d \in UploadImages :
        scans' = Append(scans, Reading(d, \E j \in 1 .. Len(scans) : scans[j].pc = "yield"))
    /\ diskImageName' = Len(scans) + 1
    /\ isCarving' = TRUE
    /\ carvedFiles' = << >>
    /\ UNCHANGED timers
    /\ UNCHANGED <<carveVars, detectVars, exifVars, fsVars>>

\* lines 170-175 for call k: setCarvedFiles(carved), then finally
\* setIsCarving(false)
Settle(r) ==
    /\ carvedFiles' = r.carved
    /\ isCarving' = FALSE

\* lines 166-169 for call k: the file is read, carveFiles runs to its first
\* await; on the empty image it returns at once and the handler goes on
Loaded(k) ==
    /\ scans[k].pc = "reading"
    /\ LET d == scans[k].data
           r == ScanHead(d, activeSignatures(AllCategories), 0, << >>, << >>, 0)
       IN  /\ scans' = [scans EXCEPT ![k] = Scanned(scans[k], r)]
           /\ IF r.pc = "yield"
              THEN timers' = Append(timers, k) /\ UNCHANGED <<carvedFiles, isCarving>>
              ELSE Settle(r) /\ UNCHANGED timers
    /\ UNCHANGED diskImageName
    /\ UNCHANGED <<carveVars, detectVars, exifVars, fsVars>>

\* the first expired timer resumes its scan: on to the next await, or to the
\* return and the rest of the handler
TimerFires ==
    /\ timers # << >>
    /\ LET k == Head(timers)
           d == scans[k].data
           r == ScanBody(d, activeSignatures(AllCategories), scans[k].i, scans[k].carved, << >>, 0)
       IN  /\ scans' = [scans EXCEPT ![k] = Scanned(scans[k], r)]
           /\ IF r.pc = "yield"
              THEN timers' = Append(Tail(timers), k) /\ UNCHANGED <<carvedFiles, isCarving>>
              ELSE Settle(r) /\ timers' = Tail(timers)
    /\ UNCHANGED diskImageName
    /\ UNCHANGED <<carveVars, detectVars, exifVars, fsVars>>

NextUpload == Upload \/ (\E k \in 1 .. Len(scans) : Loaded(k)) \/ TimerFires

SpecUpload == InitUpload /\ [][NextUpload]_vars

(***************************************************************************)
(* Properties of the carver widget.                                        *)
(***************************************************************************)
Running(k) == scans[k].pc # "done"

\* C30: once every scan has finished, the displayed list is the result for the
\* most recently uploaded image, the one whose name is displayed; and
\* isCarving is true whenever some scan is still running.
C30_LatestUploadDisplayed ==
    (Len(scans) >= 2 /\ scans[Len(scans)].overlapped) =>
        /\ (\A k \in 1 .. Len(scans) : ~Running(k)) =>
               /\ diskImageName = Len(scans)
               /\ carvedFiles = scans[Len(scans)].carved
        /\ (\E k \in 1 .. Len(scans) : Running(k)) => isCarving

\* the same for the displayed list alone
LatestListDisplayed ==
    (Len(scans) >= 2 /\ scans[Len(scans)].overlapped
        /\ \A k \in 1 .. Len(scans) : ~Running(k)) =>
        carvedFiles = scans[Len(scans)].carved

\* the widget's state is well-formed
UploadTypeOK ==
    /\ Len(scans) <= MaxUploads
    /\ diskImageName = Len(scans)
    /\ \A k \in 1 .. Len(timers) : scans[timers[k]].pc = "yield"

(***************************************************************************)
(* Properties of the FAT directory reader.                                 *)
(***************************************************************************)
FatParsed == fileSystem \in {"FAT32", "FAT16"} /\ analysisResult # NotParsed

files == analysisResult.files

deletedFiles == analysisResult.deletedFiles

SlotOffset(k) == rootDirStartOf(fsData) + 32 * k

\* byte b of directory slot k, -1 past the end of the buffer
SlotByte(k, b) == Elem(fsData, SlotOffset(k) + b)

SlotWhole(k) == SlotOffset(k) + 32 <= Len(fsData)

\* slot k is below rootEntryCount, starts inside the buffer and follows no
\* slot whose first byte is 0x00
Reached(k) ==
    /\ k < Word(fsData, 17)
    /\ SlotOffset(k) < Len(fsData)
    /\ \A j \in 0 .. k - 1 : SlotByte(j, 0) # 0

EntriesOf(list, k) == { j \in DOMAIN list : list[j].slot = k }

Ascending(list) == \A j \in 1 .. Len(list) - 1 : list[j].slot < list[j + 1].slot

\* C21: every reached slot of a FAT root directory whose first byte is 0xE5
\* yields exactly one deleted entry, named with a placeholder for the first
\* character, and no active entry, whatever its other name and extension
\* bytes are.
C21_DeletedSlotListed ==
    FatParsed =>
        \A k \in 0 .. Word(fsData, 17) - 1 :
            Reached(k) /\ SlotWhole(k) /\ SlotByte(k, 0) = 229 =>
                /\ Cardinality(EntriesOf(deletedFiles, k)) = 1
                /\ EntriesOf(files, k) = {}
                /\ \A j \in EntriesOf(deletedFiles, k) : Head(deletedFiles[j].name) = 95

\* C22: the size of every FAT entry is the unsigned 32-bit little-endian
\* value of bytes 28-31 of its slot: it is not negative, its low 24 bits are
\* bytes 28-30 and the rest is byte 31.
C22_SizeUnsigned ==
    FatParsed =>
        \A list \in {files, deletedFiles} : \A j \in DOMAIN list :
            LET e == list[j]
            IN  SlotWhole(e.slot) =>
                    /\ e.size >= 0
                    /\ e.size % 16777216 = SlotByte(e.slot, 28) + 256 * SlotByte(e.slot, 29)
                                               + 65536 * SlotByte(e.slot, 30)
                    /\ e.size \div 16777216 = SlotByte(e.slot, 31)

\* C27: the entries of each list come from ascending slots, every slot that
\* yields an entry is below rootEntryCount and before the first slot starting
\* with 0x00, counted from the computed root directory offset; a deleted
\* entry comes from a slot starting with 0xE5, an active one from a slot
\* starting with none of 0x00, 0xE5 and 0x2E, so no slot yields two entries.
C27_DirectoryWalk ==
    FatParsed =>
        /\ Ascending(files) /\ Ascending(deletedFiles)
        /\ \A j \in DOMAIN files :
               /\ Reached(files[j].slot)
               /\ SlotByte(files[j].slot, 0) \notin {0, 229, 46}
               /\ files[j].cluster = Word(fsData, SlotOffset(files[j].slot) + 26)
        /\ \A j \in DOMAIN deletedFiles :
               /\ Reached(deletedFiles[j].slot)
               /\ SlotByte(deletedFiles[j].slot, 0) = 229
               /\ deletedFiles[j].cluster = Word(fsData, SlotOffset(deletedFiles[j].slot) + 26)

\* a directory with an active and a deleted entry, a skipped dot slot or an
\* end slot followed by a used slot below rootEntryCount
C27_Witness ==
    /\ FatParsed
    /\ Len(files) + Len(deletedFiles) >= 1
    /\ \E k \in 0 .. Word(fsData, 17) - 2 :
           /\ Reached(k) /\ SlotByte(k, 0) = 0
           /\ SlotWhole(k + 1) /\ SlotByte(k + 1, 0) \in {65, 66, 68, 229}

(***************************************************************************)
(* Properties of the two readers together.                                 *)
(***************************************************************************)
NtfsParsed == fileSystem = "NTFS" /\ analysisResult # NotParsed

RecordOffset(k) == mftOffsetOf(fsData) + 1024 * k

\* C23: every reported entry is decoded from bytes inside the buffer: the
\* whole 32-byte slot of a FAT entry, the header of the record of an NTFS
\* entry.
C23_InBounds ==
    /\ FatParsed =>
           \A list \in {files, deletedFiles} : \A j \in DOMAIN list :
               SlotOffset(list[j].slot) >= 0 /\ SlotWhole(list[j].slot)
    /\ NtfsParsed =>
           \A list \in {files, deletedFiles} : \A j \in DOMAIN list :
               RecordOffset(list[j].slot) >= 0
                   /\ RecordOffset(list[j].slot) + 24 <= Len(fsData)

\* C25: a second run on the same bytes returns the result of the first.
C25_Deterministic == previousResult # NotParsed => analysisResult = previousResult

\* C28: the analysis of an NTFS volume returns.
C28_Terminates == NtfsParsed => analysisResult.exit = "returned"

(***************************************************************************)
(* The MFT as the volume lays it out: the attributes of a record, walked   *)
(* by their 16-bit lengths from the offset at record offset 20 up to the   *)
(* end marker.                                                             *)
(***************************************************************************)
RECURSIVE FileNameAttrs(_, _, _)
FileNameAttrs(d, rec, o) ==
    IF o + 8 > rec + 1024 \/ o + 8 > Len(d) THEN {}
    ELSE IF \A b \in 0 .. 3 : At(d, o + b) = 255 THEN {}
    ELSE LET here == IF jsSlice(d, o, o + 4) = <<48, 0, 0, 0>> THEN {o} ELSE {}
         IN  IF Word(d, o + 4) = 0 \/ At(d, o + 6) # 0 \/ At(d, o + 7) # 0 THEN here
             ELSE here \cup FileNameAttrs(d, rec, o + Word(d, o + 4))

\* the UTF-16 units of the name of the $FILE_NAME attribute at o
UnitName(d, o) == [j \in 1 .. Bits(d, o + 88) |-> Word(d, o + 90 + 2 * (j - 1))]

\* the names of record k that are to be reported
ReportableNames(k) ==
    { n \in { UnitName(fsData, o) :
                o \in FileNameAttrs(fsData, RecordOffset(k),
                                    RecordOffset(k) + Word(fsData, RecordOffset(k) + 20)) } :
        n # << >> /\ Head(n) # 36 }

\* C24: every whole record that starts with FILE and holds one $FILE_NAME
\* attribute with a non-empty name not starting with $ yields exactly one
\* entry, of that name, deleted iff bit 0 of the flags is clear and listed
\* accordingly, a directory iff bit 1 is set; a record without the signature
\* yields none.
C24_RecordReported ==
    NtfsParsed /\ analysisResult.exit = "returned" =>
        \A k \in 0 .. MaxRecords - 1 :
            LET rec == RecordOffset(k)
                flags == Word(fsData, rec + 22)
                all == files \o deletedFiles
            IN  rec + 1024 <= Len(fsData) =>
                    /\ jsSlice(fsData, rec, rec + 4) # FILE => EntriesOf(all, k) = {}
                    /\ jsSlice(fsData, rec, rec + 4) = FILE
                           /\ Cardinality(FileNameAttrs(fsData, rec, rec + Word(fsData, rec + 20))) = 1
                           /\ ReportableNames(k) # {} =>
                           /\ Cardinality(EntriesOf(all, k)) = 1
                           /\ \A j \in EntriesOf(all, k) :
                                  /\ all[j].name \in ReportableNames(k)
                                  /\ all[j].isDeleted <=> ~BitSet(flags, 1)
                                  /\ all[j].isDirectory <=> BitSet(flags, 2)
                           /\ EntriesOf(deletedFiles, k) # {} <=> ~BitSet(flags, 1)
====
